---- MODULE Spec2Model ----
(***************************************************************************)
(* Model of the gait analyser of src/running_gait_analyzer.py              *)
(* (class RunningGaitAnalyzer) and of the way src/main.py drives it.       *)
(*                                                                         *)
(* Units.  All quantities are integers or exact fractions:                  *)
(*   timestamps and durations   milliseconds                               *)
(*   accelerations              0.1 g                                      *)
(*   angular rates              degrees per second                         *)
(*   angles                     degrees                                    *)
(* A float the code computes by a division (np.mean, a ratio, a count      *)
(* divided by the sampling rate) is the exact fraction [n, d] in lowest    *)
(* terms; np.std is carried as its square (the population variance).       *)
(*                                                                         *)
(* A pandas DataFrame is [none |-> FALSE, rows |-> <<row, ...>>]; Python's  *)
(* None in a DataFrame field is NoneFrame.  Every row carries its index    *)
(* label (field index), which the code uses for .loc lookups and slices.   *)
(* A Python dict is a function from its keys; {} is the empty function.    *)
(***************************************************************************)
EXTENDS Integers, Sequences, FiniteSets, TLC

VARIABLES
    config,            \* self.config
    data,              \* self.data
    left_foot_data,    \* self.left_foot_data
    right_foot_data,   \* self.right_foot_data
    analysis_results,  \* self.analysis_results
    op,                \* the method that ran last ("init" before any)
    arg,               \* the argument of a directly applied method
    ret                \* what the last method returned or raised

vars == <<config, data, left_foot_data, right_foot_data, analysis_results, op, arg, ret>>

analyzer == <<config, data, left_foot_data, right_foot_data, analysis_results>>

(***************************************************************************)
(* Exact arithmetic                                                        *)
(***************************************************************************)
Abs(x) == IF x < 0 THEN -x ELSE x

RECURSIVE GCD(_, _)
GCD(a, b) == IF b = 0 THEN a ELSE GCD(b, a % b)

\* the fraction n/d (d # 0) in lowest terms with a positive denominator
Rat(n, d) ==
    LET g == GCD(Abs(n), Abs(d))
        s == IF d < 0 THEN -1 ELSE 1
    IN  [n |-> (s * n) \div g, d |-> (s * d) \div g]

Zero == Rat(0, 1)

RatAdd(a, b) == Rat(a.n * b.d + b.n * a.d, a.d * b.d)

RatSub(a, b) == Rat(a.n * b.d - b.n * a.d, a.d * b.d)

RatMul(a, b) == Rat(a.n * b.n, a.d * b.d)

RatDiv(a, b) == Rat(a.n * b.d, a.d * b.n)

RatAbs(a) == [n |-> Abs(a.n), d |-> a.d]

RatLt(a, b) == a.n * b.d < b.n * a.d

RatLe(a, b) == a.n * b.d <= b.n * a.d

\* the elements of xs that satisfy Keep, in order (a list comprehension / boolean mask)
Filter(xs, Keep(_)) == SelectSeq(xs, Keep)

\* the element of a one-element set: The({F(x) : x \in {e}}) computes e once and
\* names it x in F, as an assignment to a local variable does
The(S) == CHOOSE v \in S : TRUE

\* the list [F(1), ..., F(n)], every element computed once
List(n, F(_)) == Filter([i \in 1..n |-> F(i)], LAMBDA v : TRUE)

RECURSIVE Sum(_)
Sum(xs) == IF xs = <<>> THEN 0 ELSE Head(xs) + Sum(Tail(xs))

RECURSIVE RatSum(_)
RatSum(xs) == IF xs = <<>> THEN Zero ELSE RatAdd(Head(xs), RatSum(Tail(xs)))

\* np.mean of a non-empty list of integers
Mean(xs) == Rat(Sum(xs), Len(xs))

\* np.mean of a non-empty list of fractions
RatMean(xs) == RatDiv(RatSum(xs), Rat(Len(xs), 1))

\* np.std(xs) ** 2 of a non-empty list of fractions: the population variance
RatVar(xs) ==
    The({RatMean(List(Len(xs), LAMBDA i : RatMul(RatSub(xs[i], m), RatSub(xs[i], m)))) :
            m \in {RatMean(xs)}})

\* np.std(xs) ** 2 of a non-empty list of integers
Var(xs) == RatVar(List(Len(xs), LAMBDA i : Rat(xs[i], 1)))

\* a slip in max: a later key that is equal replaces the current best
RECURSIVE PyMaxFrom_LastWins(_, _, _)
PyMaxFrom_LastWins(keys, i, best) ==
    IF i > Len(keys) THEN best
    ELSE PyMaxFrom_LastWins(keys, i + 1, IF RatLe(keys[best], keys[i]) THEN i ELSE best)

\* Python's max over a list of keys: the position of the first largest key
\* (max keeps its current best unless a later key is strictly greater)
RECURSIVE PyMaxFrom(_, _, _)
PyMaxFrom(keys, i, best) ==
    IF i > Len(keys) THEN best
    ELSE PyMaxFrom(keys, i + 1, IF RatLt(keys[best], keys[i]) THEN i ELSE best)

\* Python's max(xs, key=Key)
PyMax(xs, Key(_)) ==
    The({xs[PyMaxFrom(keys, 2, 1)] : keys \in {List(Len(xs), LAMBDA i : Key(xs[i]))}})

(***************************************************************************)
(* DataFrames                                                              *)
(***************************************************************************)
NoneFrame == [none |-> TRUE, rows |-> <<>>]

Frame(rows) == [none |-> FALSE, rows |-> rows]

\* pd.DataFrame()
EmptyFrame == Frame(<<>>)

\* df.empty, for a df that is a DataFrame
IsEmpty(df) == df.rows = <<>>

\* Series.unique(): the distinct values in order of first appearance
RECURSIVE Unique(_)
Unique(xs) ==
    IF xs = <<>> THEN <<>>
    ELSE LET h == Head(xs) IN <<h>> \o Unique(Filter(Tail(xs), LAMBDA v : v # h))

\* the row of df whose index label is label (df.loc[label])
Loc(df, label) == CHOOSE r \in {df.rows[i] : i \in 1..Len(df.rows)} : r.index = label

\* df.loc[a:b]: the rows from label a to label b, both included
LocSlice(df, a, b) ==
    LET ia == CHOOSE i \in 1..Len(df.rows) : df.rows[i].index = a
        ib == CHOOSE i \in 1..Len(df.rows) : df.rows[i].index = b
    IN  Frame(SubSeq(df.rows, ia, ib))

(***************************************************************************)
(* RunningGaitAnalyzer.__init__: the configuration                         *)
(***************************************************************************)
DefaultConfig ==
    [ground_contact_threshold |->
        [accel_z_min |-> 5,            \* 0.5 g
         accel_magnitude_min |-> 12,   \* 1.2 g
         gyro_magnitude_max |-> 50],   \* 50.0 deg/s
     gait_detection |->
        [min_contact_duration |-> 100, \* 0.1 s
         max_contact_duration |-> 500, \* 0.5 s
         min_flight_duration |-> 50,   \* 0.05 s
         max_flight_duration |-> 300], \* 0.3 s
     pressure_zones |->
        [heel_angle_range |-> <<-30, 10>>,
         midfoot_angle_range |-> <<-10, 30>>,
         forefoot_angle_range |-> <<20, 60>>],
     sampling_rate |-> 30]

(***************************************************************************)
(* analyze_contact_zones                                                   *)
(***************************************************************************)
\* a slip in the mask: the upper end of the range is excluded
InAngleRange_OpenAbove(row, range) == row.angle_x >= range[1] /\ row.angle_x < range[2]

\* the mask (angle_x >= range[0]) & (angle_x <= range[1])
InAngleRange(row, range) == row.angle_x >= range[1] /\ row.angle_x <= range[2]

\* mask.sum()
MaskSum(rows, range) == Len(Filter(rows, LAMBDA r : InAngleRange(r, range)))

\* a fencepost slip: the total counts the intervals between samples
analyze_contact_zones_Fencepost(contact_data) ==
    IF IsEmpty(contact_data)
    THEN [heel |-> Zero, midfoot |-> Zero, forefoot |-> Zero]
    ELSE LET zones == config.pressure_zones
             rate == config.sampling_rate
             rows == contact_data.rows
         IN  [heel |-> Rat(MaskSum(rows, zones.heel_angle_range), rate),
              midfoot |-> Rat(MaskSum(rows, zones.midfoot_angle_range), rate),
              forefoot |-> Rat(MaskSum(rows, zones.forefoot_angle_range), rate),
              total |-> Rat(Len(rows) - 1, rate)]

analyze_contact_zones(contact_data) ==
    IF IsEmpty(contact_data)
    THEN [heel |-> Zero, midfoot |-> Zero, forefoot |-> Zero]
    ELSE LET zones == config.pressure_zones
             rate == config.sampling_rate
             rows == contact_data.rows
         IN  [heel |-> Rat(MaskSum(rows, zones.heel_angle_range), rate),
              midfoot |-> Rat(MaskSum(rows, zones.midfoot_angle_range), rate),
              forefoot |-> Rat(MaskSum(rows, zones.forefoot_angle_range), rate),
              total |-> Rat(Len(rows), rate)]

\* the keys of a contact_zones dict in insertion order
ZoneKeys(zones) == Filter(<<"heel", "midfoot", "forefoot", "total">>, LAMBDA k : k \in DOMAIN zones)

(***************************************************************************)
(* detect_ground_contact_events                                            *)
(***************************************************************************)
\* a slip in the mask: both amplitudes are required instead of either one
InContact_NeedsBothAmplitudes(row) ==
    LET c == config.ground_contact_threshold
    IN  ((row.accel_z > c.accel_z_min) /\ (row.accel_magnitude > c.accel_magnitude_min))
        /\ (row.gyro_magnitude < c.gyro_magnitude_max)

\* a slip in the gate: the angular rate gates the magnitude test only
InContact_GateBindsTighter(row) ==
    LET c == config.ground_contact_threshold
    IN  (row.accel_z > c.accel_z_min)
        \/ ((row.accel_magnitude > c.accel_magnitude_min)
            /\ (row.gyro_magnitude < c.gyro_magnitude_max))

\* the float NaN that pandas holds for a NULL of the table: a value apart from
\* every reading, told apart by IsNaN wherever a column is compared or reduced
NaN == -1000000

IsNaN(value) == value = NaN

\* one element of contact_mask; a comparison with NaN is False
InContact(row) ==
    LET c == config.ground_contact_threshold
    IN  ((row.accel_z > c.accel_z_min /\ ~IsNaN(row.accel_z))
         \/ (row.accel_magnitude > c.accel_magnitude_min /\ ~IsNaN(row.accel_magnitude)))
        /\ (row.gyro_magnitude < c.gyro_magnitude_max /\ ~IsNaN(row.gyro_magnitude))

contact_mask(foot_data) == List(Len(foot_data.rows), LAMBDA i : InContact(foot_data.rows[i]))

AsInt(b) == IF b THEN 1 ELSE 0

\* contact_mask.astype(int).diff() at position i >= 2 (position 1 holds NaN,
\* which equals neither 1 nor -1)
contact_changes(mask, i) == AsInt(mask[i]) - AsInt(mask[i - 1])

\* the index labels of the rows where contact_changes equals edge
EdgeLabels(foot_data, edge) ==
    The({List(Len(hit), LAMBDA k : foot_data.rows[hit[k]].index) :
            hit \in {Filter(List(Len(mask), LAMBDA i : i),
                            LAMBDA i : i >= 2 /\ contact_changes(mask, i) = edge) :
                        mask \in {contact_mask(foot_data)}}})

contact_starts(foot_data) == EdgeLabels(foot_data, 1)

contact_ends(foot_data) == EdgeLabels(foot_data, -1)

\* a slip in the pairing: a leading end is kept
PairUp_KeepLeadingEnd(starts0, ends0) ==
    LET both == Len(starts0) > 0 /\ Len(ends0) > 0
        starts1 == IF both /\ Len(starts0) > Len(ends0)
                   THEN SubSeq(starts0, 1, Len(starts0) - 1) ELSE starts0
        n == IF Len(starts1) < Len(ends0) THEN Len(starts1) ELSE Len(ends0)
    IN  List(n, LAMBDA k : <<starts1[k], ends0[k]>>)

\* a slip in the pairing: the pairs come out latest first
PairUp_LatestFirst(starts0, ends0) ==
    LET both == Len(starts0) > 0 /\ Len(ends0) > 0
        ends1 == IF both /\ starts0[1] > ends0[1] THEN Tail(ends0) ELSE ends0
        starts1 == IF both /\ Len(starts0) > Len(ends1)
                   THEN SubSeq(starts0, 1, Len(starts0) - 1) ELSE starts0
        n == IF Len(starts1) < Len(ends1) THEN Len(starts1) ELSE Len(ends1)
    IN  List(n, LAMBDA k : <<starts1[n + 1 - k], ends1[n + 1 - k]>>)

\* lines 166-171: drop a leading end, then a trailing start; the pairs zip() yields
PairUp(starts0, ends0) ==
    LET both == Len(starts0) > 0 /\ Len(ends0) > 0
        ends1 == IF both /\ starts0[1] > ends0[1] THEN Tail(ends0) ELSE ends0
        starts1 == IF both /\ Len(starts0) > Len(ends1)
                   THEN SubSeq(starts0, 1, Len(starts0) - 1) ELSE starts0
        n == IF Len(starts1) < Len(ends1) THEN Len(starts1) ELSE Len(ends1)
    IN  List(n, LAMBDA k : <<starts1[k], ends1[k]>>)

ContactPairs(foot_data) ==
    The({PairUp(starts0, ends0) :
            starts0 \in {contact_starts(foot_data)}, ends0 \in {contact_ends(foot_data)}})

\* a slip in the filter: the lower bound is not tested
DurationInBand_NoMin(duration) == duration <= config.gait_detection.max_contact_duration

\* min_duration <= duration <= max_duration
DurationInBand(duration) ==
    /\ config.gait_detection.min_contact_duration <= duration
    /\ duration <= config.gait_detection.max_contact_duration

\* the values of a column that are not NaN (Series.max() skips NaN)
DropNaN(xs) == Filter(xs, LAMBDA v : ~IsNaN(v))

\* Series.max() of a non-empty column of integers
RECURSIVE SeqMax(_)
SeqMax(xs) ==
    IF Len(xs) = 1 THEN xs[1]
    ELSE LET m == SeqMax(Tail(xs)) IN IF xs[1] >= m THEN xs[1] ELSE m

Column(df, Field(_)) == List(Len(df.rows), LAMBDA i : Field(df.rows[i]))

\* the dict appended for one retained pair (lines 185-197)
ContactEvent(foot_data, foot_name, start_idx, end_idx) ==
    LET start_time == Loc(foot_data, start_idx).timestamp
        end_time == Loc(foot_data, end_idx).timestamp
    IN  The({[foot |-> foot_name,
              start_time |-> start_time,
              end_time |-> end_time,
              duration |-> end_time - start_time,
              contact_zones |-> analyze_contact_zones(contact_data),
              peak_accel |-> SeqMax(DropNaN(Column(contact_data,
                                                   LAMBDA r : r.accel_magnitude))),
              avg_angle_x |-> Mean(Column(contact_data, LAMBDA r : r.angle_x)),
              avg_angle_y |-> Mean(Column(contact_data, LAMBDA r : r.angle_y))] :
                 contact_data \in {LocSlice(foot_data, start_idx, end_idx)}})

\* foot_data is a DataFrame here (None raises before this point)
detect_ground_contact_events(foot_data, foot_name) ==
    IF IsEmpty(foot_data) THEN <<>>
    ELSE The({List(Len(kept), LAMBDA k :
                      ContactEvent(foot_data, foot_name, kept[k][1], kept[k][2])) :
                 kept \in {Filter(pairs, LAMBDA p :
                               DurationInBand(Loc(foot_data, p[2]).timestamp
                                              - Loc(foot_data, p[1]).timestamp)) :
                              pairs \in {ContactPairs(foot_data)}}})

(***************************************************************************)
(* analyze_contact_patterns                                                *)
(***************************************************************************)
\* a slip in the key: the 'total' entry competes with its own value
max_zone_TotalCompetes(zones) == PyMax(ZoneKeys(zones), LAMBDA k : zones[k])

\* max(zones, key=lambda k: zones[k] if k != 'total' else 0)
max_zone(zones) == PyMax(ZoneKeys(zones), LAMBDA k : IF k # "total" THEN zones[k] ELSE Zero)

\* the number of events whose max_zone is zone
Strikes(events, zone) == Len(Filter(events, LAMBDA e : max_zone(e.contact_zones) = zone))

\* a slip in the key's list of counts: midfoot and forefoot counts swapped
dominant_strike_pattern_SwappedCounts(events) ==
    PyMax(<<"heel", "midfoot", "forefoot">>,
          LAMBDA x : Rat(Strikes(events, IF x = "midfoot" THEN "forefoot"
                                         ELSE IF x = "forefoot" THEN "midfoot" ELSE x), 1))

\* max(['heel', 'midfoot', 'forefoot'], key=<its strike count>)
dominant_strike_pattern(events) ==
    PyMax(<<"heel", "midfoot", "forefoot">>, LAMBDA x : Rat(Strikes(events, x), 1))

analyze_contact_patterns(events) ==
    IF events = <<>> THEN <<>>
    ELSE LET total_strikes == Len(events)
         IN  [heel_strike_ratio |-> Rat(Strikes(events, "heel"), total_strikes),
              midfoot_strike_ratio |-> Rat(Strikes(events, "midfoot"), total_strikes),
              forefoot_strike_ratio |-> Rat(Strikes(events, "forefoot"), total_strikes),
              dominant_strike_pattern |-> dominant_strike_pattern(events)]

(***************************************************************************)
(* calculate_cop_trajectory, analyze_center_of_pressure                    *)
(***************************************************************************)
\* a slip in the comparison: a deviation equal to the limit counts as above it
StdAbove_OrEqual(variance, limit) == RatLe(Rat(limit * limit, 1), variance)

\* std > limit, on the variance: std > limit  <=>  std^2 > limit^2
StdAbove(variance, limit) == RatLt(Rat(limit * limit, 1), variance)

overpronation_risk(angle_x_var, angle_y_var) ==
    IF StdAbove(angle_x_var, 15) \/ StdAbove(angle_y_var, 15) THEN "high"
    ELSE IF StdAbove(angle_x_var, 10) \/ StdAbove(angle_y_var, 10) THEN "medium"
    ELSE "low"

\* events is non-empty (the caller checks); the *_std entries hold variances
calculate_cop_trajectory(events) ==
    LET angle_x_changes == List(Len(events), LAMBDA i : events[i].avg_angle_x)
        angle_y_changes == List(Len(events), LAMBDA i : events[i].avg_angle_y)
    IN  The({[cop_angle_x_std |-> angle_x_var,
              cop_angle_y_std |-> angle_y_var,
              overpronation_risk |-> overpronation_risk(angle_x_var, angle_y_var),
              avg_angle_x |-> RatMean(angle_x_changes),
              avg_angle_y |-> RatMean(angle_y_changes)] :
                 angle_x_var \in {RatVar(angle_x_changes)},
                 angle_y_var \in {RatVar(angle_y_changes)}})

PeakForces(events) == List(Len(events), LAMBDA i : events[i].peak_accel)

analyze_center_of_pressure(left_events, right_events) ==
    LET left_part ==
            IF left_events # <<>>
            THEN The({[left_cop_angle_x_std |-> c.cop_angle_x_std,
                       left_cop_angle_y_std |-> c.cop_angle_y_std,
                       left_overpronation_risk |-> c.overpronation_risk,
                       left_avg_angle_x |-> c.avg_angle_x,
                       left_avg_angle_y |-> c.avg_angle_y] :
                          c \in {calculate_cop_trajectory(left_events)}})
            ELSE <<>>
        right_part ==
            IF right_events # <<>>
            THEN The({[right_cop_angle_x_std |-> c.cop_angle_x_std,
                       right_cop_angle_y_std |-> c.cop_angle_y_std,
                       right_overpronation_risk |-> c.overpronation_risk,
                       right_avg_angle_x |-> c.avg_angle_x,
                       right_avg_angle_y |-> c.avg_angle_y] :
                          c \in {calculate_cop_trajectory(right_events)}})
            ELSE <<>>
        both_part ==
            IF left_events # <<>> /\ right_events # <<>>
            THEN The({[force_asymmetry |-> RatAbs(RatSub(l, r)),
                       left_avg_peak_force |-> l,
                       right_avg_peak_force |-> r] :
                          l \in {Mean(PeakForces(left_events))},
                          r \in {Mean(PeakForces(right_events))}})
            ELSE <<>>
    IN  both_part @@ right_part @@ left_part

(***************************************************************************)
(* calculate_gait_metrics: the computation on the two event lists          *)
(***************************************************************************)
\* a slip in the sort: an element goes before the elements with an equal key
RECURSIVE InsertByStart_BeforeEquals(_, _)
InsertByStart_BeforeEquals(sorted, e) ==
    IF sorted = <<>> THEN <<e>>
    ELSE IF Head(sorted).start_time < e.start_time
         THEN <<Head(sorted)>> \o InsertByStart_BeforeEquals(Tail(sorted), e)
         ELSE <<e>> \o sorted

\* list.sort(key=start_time) is stable: an element goes after every element
\* whose key is not larger
RECURSIVE InsertByStart(_, _)
InsertByStart(sorted, e) ==
    IF sorted = <<>> THEN <<e>>
    ELSE IF Head(sorted).start_time <= e.start_time
         THEN <<Head(sorted)>> \o InsertByStart(Tail(sorted), e)
         ELSE <<e>> \o sorted

RECURSIVE SortByStart(_)
SortByStart(events) ==
    IF events = <<>> THEN <<>>
    ELSE InsertByStart(SortByStart(SubSeq(events, 1, Len(events) - 1)), events[Len(events)])

\* a slip in the merge: the right foot's events are left out
MergeEvents_LeftOnly(left_events, right_events) == SortByStart(left_events)

\* all_events = left_events + right_events; all_events.sort(...)
MergeEvents(left_events, right_events) == SortByStart(left_events \o right_events)

\* a slip in the filter: the lower bound is not tested
FlightInBand_NoMin(flight_time) == flight_time <= config.gait_detection.max_flight_duration

\* min_flight <= flight_time <= max_flight
FlightInBand(flight_time) ==
    /\ config.gait_detection.min_flight_duration <= flight_time
    /\ flight_time <= config.gait_detection.max_flight_duration

\* a slip in the gap: it is measured from the start of the current event
FlightGaps_FromStart(all_events) ==
    List(Len(all_events) - 1, LAMBDA i : all_events[i + 1].start_time - all_events[i].start_time)

\* next_start - current_end for every consecutive pair of all_events
FlightGaps(all_events) ==
    List(Len(all_events) - 1, LAMBDA i : all_events[i + 1].start_time - all_events[i].end_time)

\* the list flight_times built by lines 253-264
FlightTimes(all_events) == Filter(FlightGaps(all_events), FlightInBand)

Durations(events) == List(Len(events), LAMBDA i : events[i].duration)

\* a slip in the elapsed time: it is taken up to the start of the last event
Cadence_ToLastStart(all_events) ==
    IF Len(all_events) >= 2
    THEN LET total_time == all_events[Len(all_events)].start_time - all_events[1].start_time
         IN  IF total_time > 0 THEN Rat(Len(all_events) * 1000 * 60, total_time) ELSE Zero
    ELSE Zero

\* lines 292-297; times are in ms, so events per second is count * 1000 / total_time
Cadence(all_events) ==
    IF Len(all_events) >= 2
    THEN LET total_time == all_events[Len(all_events)].end_time - all_events[1].start_time
         IN  IF total_time > 0 THEN Rat(Len(all_events) * 1000 * 60, total_time) ELSE Zero
    ELSE Zero

\* a slip in the threshold: one event is taken to be enough
InsufficientEvents_BelowOne(all_events) == Len(all_events) < 1

\* the insufficient-data threshold of line 248
InsufficientEvents(all_events) == Len(all_events) < 2

\* the metrics dict of lines 267-305 for the merged list and its flight times;
\* the *_std entries hold variances
MetricsOf(left_events, right_events, all_events, flight_times) ==
    LET contact_times == Durations(all_events)
        left_contact_times == Durations(left_events)
        right_contact_times == Durations(right_events)
        base ==
            [avg_contact_time |-> IF contact_times # <<>> THEN Mean(contact_times) ELSE Zero,
             avg_flight_time |-> IF flight_times # <<>> THEN Mean(flight_times) ELSE Zero,
             contact_time_std |-> IF contact_times # <<>> THEN Var(contact_times) ELSE Zero,
             flight_time_std |-> IF flight_times # <<>> THEN Var(flight_times) ELSE Zero,
             left_avg_contact_time |->
                 IF left_contact_times # <<>> THEN Mean(left_contact_times) ELSE Zero,
             right_avg_contact_time |->
                 IF right_contact_times # <<>> THEN Mean(right_contact_times) ELSE Zero,
             lr_contact_time_diff |->
                 IF left_contact_times # <<>> /\ right_contact_times # <<>>
                 THEN RatAbs(RatSub(Mean(left_contact_times), Mean(right_contact_times)))
                 ELSE Zero,
             contact_flight_ratio |->
                 IF contact_times # <<>> /\ flight_times # <<>>
                 THEN RatDiv(Mean(contact_times), Mean(flight_times))
                 ELSE Zero,
             step_count |-> Len(all_events),
             left_step_count |-> Len(left_events),
             right_step_count |-> Len(right_events),
             cadence |-> Cadence(all_events)]
    IN  analyze_center_of_pressure(left_events, right_events)
        @@ analyze_contact_patterns(all_events) @@ base

\* the dict calculate_gait_metrics returns for the two event lists ({} when
\* fewer than 2 events)
GaitMetrics(left_events, right_events) ==
    The({IF InsufficientEvents(all_events) THEN <<>>
         ELSE The({MetricsOf(left_events, right_events, all_events, flight_times) :
                      flight_times \in {FlightTimes(all_events)}}) :
            all_events \in {MergeEvents(left_events, right_events)}})

(***************************************************************************)
(* generate_recommendations, generate_report                               *)
(***************************************************************************)
\* metrics.get(key, default)
Get(metrics, key, default) == IF key \in DOMAIN metrics THEN metrics[key] ELSE default

\* the recommendation lines, each named by the rule that emits it
generate_recommendations(metrics) ==
    LET ratio == Get(metrics, "contact_flight_ratio", Zero)
        lr_diff == Get(metrics, "lr_contact_time_diff", Zero)
        dominant_pattern == Get(metrics, "dominant_strike_pattern", "")
        left_risk == Get(metrics, "left_overpronation_risk", "low")
        right_risk == Get(metrics, "right_overpronation_risk", "low")
        recommendations ==
            (IF RatLt(Rat(15, 10), ratio) THEN <<"ratio_high">>
             ELSE IF RatLt(ratio, Rat(8, 10)) THEN <<"ratio_low">> ELSE <<>>)
            \o (IF RatLt(Rat(20, 1), lr_diff) THEN <<"asymmetry">> ELSE <<>>)
            \o (IF dominant_pattern = "heel" THEN <<"heel_strike">>
                ELSE IF dominant_pattern = "forefoot" THEN <<"forefoot_strike">> ELSE <<>>)
            \o (IF left_risk = "high" \/ right_risk = "high" THEN <<"overpronation">> ELSE <<>>)
    IN  IF recommendations = <<>> THEN <<"looks_fine">> ELSE recommendations

\* a float formatted with a fixed number of decimals: the nearest integer to r
\* in units of the last printed decimal, ties to even
Round(r) ==
    LET q == r.n \div r.d
        twice == 2 * (r.n - q * r.d)
    IN  IF twice < r.d THEN q
        ELSE IF twice > r.d THEN q + 1
        ELSE IF q % 2 = 0 THEN q ELSE q + 1

Scaled(r, k) == Round(RatMul(r, Rat(k, 1)))

\* the fixed message of line 404
RunAnalysisFirst == [text |-> "run_analysis_first"]

\* the formatted report: every printed value at its printed precision
\* (times .3f s = ms; ratio .2f; cadence .1f; percentages .1f; forces .2f g)
ReportOf(metrics) ==
    [text |-> "report",
     avg_contact_time |-> Scaled(Get(metrics, "avg_contact_time", Zero), 1),
     avg_flight_time |-> Scaled(Get(metrics, "avg_flight_time", Zero), 1),
     contact_flight_ratio |-> Scaled(Get(metrics, "contact_flight_ratio", Zero), 100),
     cadence |-> Scaled(Get(metrics, "cadence", Zero), 10),
     left_avg_contact_time |-> Scaled(Get(metrics, "left_avg_contact_time", Zero), 1),
     right_avg_contact_time |-> Scaled(Get(metrics, "right_avg_contact_time", Zero), 1),
     lr_contact_time_diff |-> Scaled(Get(metrics, "lr_contact_time_diff", Zero), 1),
     heel_strike_ratio |-> Scaled(Get(metrics, "heel_strike_ratio", Zero), 1000),
     midfoot_strike_ratio |-> Scaled(Get(metrics, "midfoot_strike_ratio", Zero), 1000),
     forefoot_strike_ratio |-> Scaled(Get(metrics, "forefoot_strike_ratio", Zero), 1000),
     dominant_strike_pattern |-> Get(metrics, "dominant_strike_pattern", "unknown"),
     left_avg_peak_force |-> Scaled(Get(metrics, "left_avg_peak_force", Zero), 10),
     right_avg_peak_force |-> Scaled(Get(metrics, "right_avg_peak_force", Zero), 10),
     force_asymmetry |-> Scaled(Get(metrics, "force_asymmetry", Zero), 10),
     left_overpronation_risk |-> Get(metrics, "left_overpronation_risk", "unknown"),
     right_overpronation_risk |-> Get(metrics, "right_overpronation_risk", "unknown"),
     recommendations |-> generate_recommendations(metrics)]

(***************************************************************************)
(* The analyser's methods as actions                                       *)
(***************************************************************************)
\* an exception leaving the method
Raised(exception) == [raised |-> exception]

\* line 105: accel_magnitude is computed from the three axes, and is NaN where
\* accel_z is; a table row carries the value the other two axes lead to with
\* its accel_z
Magnitude(row) == IF IsNaN(row.accel_z) THEN NaN ELSE row.accel_magnitude

\* the DataFrame load_data_from_db builds from the rows the query returns (already
\* ordered by timestamp, device_mac): pandas labels them 0, 1, 2, ...
LoadedFrame(table) ==
    Frame([i \in 1..Len(table) |->
              [index |-> i - 1,
               timestamp |-> table[i].timestamp,
               device_mac |-> table[i].device_mac,
               accel_z |-> table[i].accel_z,
               accel_magnitude |-> Magnitude(table[i]),
               gyro_magnitude |-> table[i].gyro_magnitude,
               angle_x |-> table[i].angle_x,
               angle_y |-> table[i].angle_y]])

\* load_data_from_db when the query succeeds and returns table
load_data_from_db(table) ==
    /\ data' = LoadedFrame(table)
    /\ ret' = LoadedFrame(table)
    /\ op' = "load_data_from_db"
    /\ UNCHANGED <<config, left_foot_data, right_foot_data, analysis_results, arg>>

\* load_data_from_db when connecting or querying raises: the except branch
load_data_from_db_fails ==
    /\ ret' = EmptyFrame
    /\ op' = "load_data_from_db"
    /\ UNCHANGED <<config, data, left_foot_data, right_foot_data, analysis_results, arg>>

\* a slip in the device order: the identifiers sorted, as np.unique returns them
Devices_Lexical(df) ==
    Filter(<<"A", "B">>, LAMBDA mac : \E i \in 1..Len(df.rows) : df.rows[i].device_mac = mac)

\* self.data['device_mac'].unique()
Devices(df) == Unique(Column(df, LAMBDA r : r.device_mac))

\* self.data[self.data['device_mac'] == mac].copy()
RowsOf(df, mac) == Frame(Filter(df.rows, LAMBDA r : r.device_mac = mac))

\* the guard of line 121
NoData(df) == df.none \/ IsEmpty(df)

\* a slip in the else branch: the right foot gets a copy of the data as well
SplitFeet_RightCopiesData(df) ==
    LET devices == Devices(df)
    IN  IF Len(devices) >= 2
        THEN <<RowsOf(df, devices[1]), RowsOf(df, devices[2])>>
        ELSE <<df, df>>

\* a slip in the split: the right foot is every sample not of the left device
SplitFeet_RightIsTheRest(df) ==
    LET devices == Devices(df)
    IN  IF Len(devices) >= 2
        THEN <<RowsOf(df, devices[1]),
               Frame(Filter(df.rows, LAMBDA r : r.device_mac # devices[1]))>>
        ELSE <<df, EmptyFrame>>

\* the pair separate_foot_data assigns for a non-empty self.data
SplitFeet(df) ==
    LET devices == Devices(df)
    IN  IF Len(devices) >= 2
        THEN <<RowsOf(df, devices[1]), RowsOf(df, devices[2])>>
        ELSE <<df, EmptyFrame>>

separate_foot_data ==
    /\ IF NoData(data)
       THEN /\ ret' = <<EmptyFrame, EmptyFrame>>
            /\ UNCHANGED <<left_foot_data, right_foot_data>>
       ELSE \E feet \in {SplitFeet(data)} :
                /\ left_foot_data' = feet[1]
                /\ right_foot_data' = feet[2]
                /\ ret' = feet
    /\ op' = "separate_foot_data"
    /\ UNCHANGED <<config, data, analysis_results, arg>>

\* lines 238-239 call separate_foot_data when a foot is still None; the feet
\* after that call
FeetForMetrics ==
    IF (left_foot_data.none \/ right_foot_data.none) /\ ~NoData(data)
    THEN SplitFeet(data)
    ELSE <<left_foot_data, right_foot_data>>

calculate_gait_metrics ==
    \E feet \in {FeetForMetrics} :
        /\ left_foot_data' = feet[1]
        /\ right_foot_data' = feet[2]
        /\ IF feet[1].none \/ feet[2].none
           THEN \* foot_data.empty on None
                /\ ret' = Raised("AttributeError")
                /\ UNCHANGED analysis_results
           ELSE \E left_events \in {detect_ground_contact_events(feet[1], "left")} :
                \E right_events \in {detect_ground_contact_events(feet[2], "right")} :
                \E metrics \in {GaitMetrics(left_events, right_events)} :
                    /\ ret' = metrics
                    /\ analysis_results' = IF metrics = <<>> THEN analysis_results ELSE metrics
        /\ op' = "calculate_gait_metrics"
        /\ UNCHANGED <<config, data, arg>>

\* a slip in the report: the stored results are cleared once reported
generate_report_ClearsResults ==
    /\ ret' = IF analysis_results = <<>> THEN RunAnalysisFirst ELSE ReportOf(analysis_results)
    /\ analysis_results' = <<>>
    /\ op' = "generate_report"
    /\ UNCHANGED <<config, data, left_foot_data, right_foot_data, arg>>

generate_report ==
    /\ ret' = IF analysis_results = <<>> THEN RunAnalysisFirst ELSE ReportOf(analysis_results)
    /\ op' = "generate_report"
    /\ UNCHANGED <<analyzer, arg>>

\* the fields __init__ sets, under configuration c
Fresh(c) ==
    /\ config = c
    /\ data = NoneFrame
    /\ left_foot_data = NoneFrame
    /\ right_foot_data = NoneFrame
    /\ analysis_results = <<>>

(***************************************************************************)
(* Inputs                                                                  *)
(***************************************************************************)
\* what one sample reads, apart from its time and device: at rest, with both
\* amplitudes exactly at their thresholds
Still == [accel_z |-> 5, accel_magnitude |-> 12, gyro_magnitude |-> 5, angle_x |-> 0, angle_y |-> 0]

\* in contact by accel_z alone
ZHit == [accel_z |-> 6, accel_magnitude |-> 11, gyro_magnitude |-> 20, angle_x |-> -20, angle_y |-> 4]

\* in contact by accel_magnitude alone
MHit == [accel_z |-> -2, accel_magnitude |-> 13, gyro_magnitude |-> 49, angle_x |-> 40, angle_y |-> -6]

\* both amplitudes high, angular rate exactly at the gate
Spin == [accel_z |-> 8, accel_magnitude |-> 15, gyro_magnitude |-> 50, angle_x |-> 15, angle_y |-> 0]

\* low amplitudes, angular rate far above the gate
Whirl == [accel_z |-> 0, accel_magnitude |-> 10, gyro_magnitude |-> 100, angle_x |-> 0, angle_y |-> 0]

Readings == {Still, ZHit, MHit, Spin, Whirl}

\* a malformed sample: accel_z is NULL in the table, so accel_magnitude is NaN
\* once loaded; the other columns read as in ZHit
Dropout ==
    [accel_z |-> NaN, accel_magnitude |-> NaN, gyro_magnitude |-> 20, angle_x |-> -20, angle_y |-> 4]

\* the time from one sample to the next, ms
Gaps == {50, 450}

Sample(timestamp, device_mac, reading) ==
    [timestamp |-> timestamp,
     device_mac |-> device_mac,
     accel_z |-> reading.accel_z,
     accel_magnitude |-> reading.accel_magnitude,
     gyro_magnitude |-> reading.gyro_magnitude,
     angle_x |-> reading.angle_x,
     angle_y |-> reading.angle_y]

(***************************************************************************)
(* detect_ground_contact_events applied to one device's samples            *)
(***************************************************************************)
MaxLen == 5

\* the device's next sample arrives: gap after the last one (the first at time 0)
Feed(gap, reading) ==
    /\ op = "init"
    /\ Len(arg.rows) < MaxLen
    /\ LET n == Len(arg.rows)
           timestamp == IF n = 0 THEN 0 ELSE arg.rows[n].timestamp + gap
       IN  arg' = Frame(Append(arg.rows, [index |-> n] @@ Sample(timestamp, "A", reading)))
    /\ UNCHANGED <<analyzer, op, ret>>

InitDetect ==
    /\ Fresh(DefaultConfig)
    /\ op = "init"
    /\ arg = EmptyFrame
    /\ ret = <<>>

Detect ==
    /\ op = "init"
    /\ ret' = detect_ground_contact_events(arg, "left")
    /\ op' = "detect_ground_contact_events"
    /\ UNCHANGED <<analyzer, arg>>

NextDetect ==
    \/ \E gap \in Gaps, reading \in Readings : Feed(gap, reading)
    \/ Detect

SpecDetect == InitDetect /\ [][NextDetect]_vars

\* C1: every event detect_ground_contact_events returns has duration =
\* timestamp[end] - timestamp[start] with min_contact_duration <= duration <=
\* max_contact_duration, and the events returned are exactly the paired
\* (start, end) intervals whose duration lies in that band, in order.
C1_EventDurationsInBand ==
    op = "detect_ground_contact_events" =>
        LET g == config.gait_detection
            span(p) == Loc(arg, p[2]).timestamp - Loc(arg, p[1]).timestamp
            inband == Filter(ContactPairs(arg), LAMBDA p :
                          g.min_contact_duration <= span(p) /\ span(p) <= g.max_contact_duration)
        IN  /\ Len(ret) = Len(inband)
            /\ \A k \in 1..Len(ret) :
                /\ ret[k].start_time = Loc(arg, inband[k][1]).timestamp
                /\ ret[k].end_time = Loc(arg, inband[k][2]).timestamp
                /\ ret[k].duration = ret[k].end_time - ret[k].start_time
                /\ g.min_contact_duration <= ret[k].duration
                /\ ret[k].duration <= g.max_contact_duration

\* C1 witness: a run that emitted an event and discarded another paired interval
C1_Witness ==
    /\ op = "detect_ground_contact_events"
    /\ Len(ret) >= 1
    /\ Len(ContactPairs(arg)) > Len(ret)

\* C3: a sample is in contact exactly when ((accel_z > accel_z_min) or
\* (accel_magnitude > accel_magnitude_min)) and (gyro_magnitude <
\* gyro_magnitude_max); when every sample has gyro_magnitude >= gyro_magnitude_max
\* no event is returned, whatever the accelerations.
C3_RotationalGate ==
    op = "detect_ground_contact_events" =>
        LET c == config.ground_contact_threshold
            rows == arg.rows
        IN  /\ \A i \in 1..Len(rows) :
                contact_mask(arg)[i] <=>
                    /\ rows[i].accel_z > c.accel_z_min
                       \/ rows[i].accel_magnitude > c.accel_magnitude_min
                    /\ rows[i].gyro_magnitude < c.gyro_magnitude_max
            /\ (\A i \in 1..Len(rows) : rows[i].gyro_magnitude >= c.gyro_magnitude_max)
                   => ret = <<>>

\* C3 witness: every sample at or above the gate, the amplitudes rising above
\* their thresholds and falling back in between
C3_Witness ==
    /\ op = "detect_ground_contact_events"
    /\ ret = <<>>
    /\ Len(arg.rows) >= 3
    /\ \A i \in 1..Len(arg.rows) :
           arg.rows[i].gyro_magnitude >= config.ground_contact_threshold.gyro_magnitude_max
    /\ \E i \in 2..(Len(arg.rows) - 1) :
           /\ arg.rows[i].accel_z > config.ground_contact_threshold.accel_z_min
           /\ arg.rows[i - 1].accel_z <= config.ground_contact_threshold.accel_z_min
           /\ arg.rows[i + 1].accel_z <= config.ground_contact_threshold.accel_z_min
           /\ arg.rows[i + 1].timestamp - arg.rows[i].timestamp
                  >= config.gait_detection.min_contact_duration

\* the in-contact runs of foot_data that begin after its first sample and end
\* before its last: <<s, e>> with positions s .. e - 1 in contact and positions
\* s - 1 and e out of contact
InnerRuns(foot_data) ==
    LET mask == contact_mask(foot_data)
        n == Len(mask)
    IN  {p \in (2..n) \X (2..n) :
            /\ p[1] < p[2]
            /\ \A i \in p[1]..(p[2] - 1) : mask[i]
            /\ ~mask[p[1] - 1]
            /\ ~mask[p[2]]}

\* the position in foot_data of the row whose index label is label
PositionOf(foot_data, label) ==
    CHOOSE i \in 1..Len(foot_data.rows) : foot_data.rows[i].index = label

\* C19: the candidate (start, end) pairs are in order, one per in-contact run
\* that neither begins at the first sample nor lasts to the final one: start
\* lies before end, every sample from start up to but not including end is in
\* contact, and every event returned spans such a run
C19_PairsAreInnerRuns ==
    op = "detect_ground_contact_events" =>
        LET pairs == ContactPairs(arg)
            spans == List(Len(pairs), LAMBDA k :
                         <<PositionOf(arg, pairs[k][1]), PositionOf(arg, pairs[k][2])>>)
            mask == contact_mask(arg)
        IN  /\ {spans[k] : k \in 1..Len(spans)} = InnerRuns(arg)
            /\ Len(spans) = Cardinality(InnerRuns(arg))
            /\ \A k \in 1..Len(spans) :
                   /\ spans[k][1] < spans[k][2]
                   /\ spans[k][1] > 1
                   /\ \A i \in spans[k][1]..(spans[k][2] - 1) : mask[i]
            /\ \A k \in 1..(Len(spans) - 1) : spans[k][2] < spans[k + 1][1]
            /\ \A k \in 1..Len(ret) :
                   \E p \in InnerRuns(arg) :
                       /\ ret[k].start_time = arg.rows[p[1]].timestamp
                       /\ ret[k].end_time = arg.rows[p[2]].timestamp

\* C19 witness: the stream begins in contact and ends in contact, with one run
\* in between; the leading end and the trailing start are dropped and the run
\* in between is the only event
C19_Witness ==
    /\ op = "detect_ground_contact_events"
    /\ Len(arg.rows) = 5
    /\ contact_mask(arg) = <<TRUE, FALSE, TRUE, FALSE, TRUE>>
    /\ contact_starts(arg) = <<2, 4>>
    /\ contact_ends(arg) = <<1, 3>>
    /\ ContactPairs(arg) = <<<<2, 3>>>>
    /\ Len(ret) = 1
    /\ ret[1].start_time = arg.rows[3].timestamp

\* the positions s .. e of the rows an event of foot_data was computed over:
\* those of the in-contact run it starts with, and the position e of its end
SliceOf(foot_data, event) ==
    CHOOSE p \in InnerRuns(foot_data) :
        /\ foot_data.rows[p[1]].timestamp = event.start_time
        /\ foot_data.rows[p[2]].timestamp = event.end_time

\* C26: every sample of the slice an emitted event is computed over is in
\* contact, so peak_accel is the magnitude of an in-contact sample and the
\* sample count of the zone breakdown is the number of in-contact samples of
\* the run
C26_Original ==
    op = "detect_ground_contact_events" =>
        \A k \in 1..Len(ret) :
            LET p == SliceOf(arg, ret[k])
                in_contact == {i \in p[1]..p[2] : InContact(arg.rows[i])}
            IN  /\ \A i \in p[1]..p[2] : InContact(arg.rows[i])
                /\ \E i \in in_contact : ret[k].peak_accel = arg.rows[i].accel_magnitude
                /\ ret[k].contact_zones.total
                       = Rat(Cardinality(in_contact), config.sampling_rate)

\* what holds instead: the slice is the in-contact run and the sample that
\* ends it, which is out of contact; the sample count is one more than the
\* number of in-contact samples, and peak_accel is the largest magnitude of
\* the slice, the last sample included
C26_SliceIncludesTheEnd ==
    op = "detect_ground_contact_events" =>
        \A k \in 1..Len(ret) :
            LET p == SliceOf(arg, ret[k])
            IN  /\ \A i \in p[1]..(p[2] - 1) : InContact(arg.rows[i])
                /\ ~InContact(arg.rows[p[2]])
                /\ ret[k].contact_zones.total = Rat(p[2] - p[1] + 1, config.sampling_rate)
                /\ \E i \in p[1]..p[2] : ret[k].peak_accel = arg.rows[i].accel_magnitude
                /\ \A i \in p[1]..p[2] : ret[k].peak_accel >= arg.rows[i].accel_magnitude

\* an event whose peak_accel is the magnitude of the out-of-contact sample
\* that ends the run, above that of every in-contact sample
C26_PeakOutOfContact ==
    /\ op = "detect_ground_contact_events"
    /\ Len(ret) = 1
    /\ LET p == SliceOf(arg, ret[1])
       IN  /\ p[2] - p[1] = 2
           /\ ret[1].peak_accel = arg.rows[p[2]].accel_magnitude
           /\ \A i \in p[1]..(p[2] - 1) : arg.rows[i].accel_magnitude < ret[1].peak_accel
           /\ ret[1].contact_zones.total = Rat(3, config.sampling_rate)

(***************************************************************************)
(* analyze_contact_zones applied to one slice of samples                   *)
(***************************************************************************)
MaxSlice == 3

\* angle_x values on, inside and outside the ends of the default ranges
Angles == {-31, -30, -20, -10, 0, 10, 15, 20, 30, 40, 60, 61}

WithZones(heel, midfoot, forefoot) ==
    [DefaultConfig EXCEPT !.pressure_zones =
        [heel_angle_range |-> heel, midfoot_angle_range |-> midfoot, forefoot_angle_range |-> forefoot]]

\* the default ranges; ranges that do not overlap; one range for all three
\* zones; a heel range with its ends swapped
ZoneConfigs ==
    {DefaultConfig,
     WithZones(<<-30, -11>>, <<-10, 19>>, <<20, 60>>),
     WithZones(<<-30, 60>>, <<-30, 60>>, <<-30, 60>>),
     WithZones(<<10, -30>>, <<-10, 30>>, <<20, 60>>)}

\* the slice's next sample, with angle_x = angle
FeedAngle(angle) ==
    /\ op = "init"
    /\ Len(arg.rows) < MaxSlice
    /\ LET n == Len(arg.rows)
       IN  arg' = Frame(Append(arg.rows,
                    [index |-> n] @@ Sample(n * 50, "A", [Still EXCEPT !.angle_x = angle])))
    /\ UNCHANGED <<analyzer, op, ret>>

InitZones ==
    /\ \E c \in ZoneConfigs : Fresh(c)
    /\ op = "init"
    /\ arg = EmptyFrame
    /\ ret = <<>>

AnalyzeZones ==
    /\ op = "init"
    /\ ret' = analyze_contact_zones(arg)
    /\ op' = "analyze_contact_zones"
    /\ UNCHANGED <<analyzer, arg>>

NextZones ==
    \/ \E angle \in Angles : FeedAngle(angle)
    \/ AnalyzeZones

SpecZones == InitZones /\ [][NextZones]_vars

\* the zone times of a slice all of whose samples have angle_x = 0
AllAnglesZero == arg.rows # <<>> /\ \A i \in 1..Len(arg.rows) : arg.rows[i].angle_x = 0

\* C7 as stated: under the default ranges a slice with angle_x = 0 throughout has
\* midfoot time equal to the sample-count duration, no heel or forefoot time,
\* and dominant zone midfoot.
C7_Original ==
    (op = "analyze_contact_zones" /\ config = DefaultConfig /\ AllAnglesZero) =>
        /\ ret.midfoot = ret.total
        /\ ret.heel = Zero
        /\ ret.forefoot = Zero
        /\ max_zone(ret) = "midfoot"

\* C7 amended: under the default ranges a slice with angle_x = 0 throughout has
\* heel time and midfoot time both equal to the sample-count duration (0 lies in
\* both ranges), no forefoot time, and dominant zone heel, the first of the tied
\* zones.
C7_ZeroAngleIsHeelAndMidfoot ==
    (op = "analyze_contact_zones" /\ config = DefaultConfig /\ AllAnglesZero) =>
        /\ ret.total = Rat(Len(arg.rows), config.sampling_rate)
        /\ ret.midfoot = ret.total
        /\ ret.heel = ret.total
        /\ ret.forefoot = Zero
        /\ max_zone(ret) = "heel"

\* C7 witness: a slice of several samples, all with angle_x = 0, analysed under
\* the default ranges
C7_Witness ==
    /\ op = "analyze_contact_zones"
    /\ config = DefaultConfig
    /\ AllAnglesZero
    /\ Len(arg.rows) >= 2

\* the number of samples of the slice whose angle_x satisfies In
CountAngles(In(_)) == Cardinality({i \in 1..Len(arg.rows) : In(arg.rows[i].angle_x)})

\* C8 as stated: under the default ranges heel + midfoot + forefoot time equals
\* the breakdown's total duration.
C8_Original ==
    (op = "analyze_contact_zones" /\ config = DefaultConfig /\ arg.rows # <<>>) =>
        RatAdd(ret.heel, RatAdd(ret.midfoot, ret.forefoot)) = ret.total

\* C8 amended: the default ranges overlap on [-10, 10] and [20, 30] and leave
\* out everything below -30 and above 60; a sample is counted in two zones, in
\* one or in none, never in three, so heel + midfoot + forefoot =
\* (samples + samples in an overlap - samples out of every range) / sampling_rate,
\* which is the total when every angle_x lies in [-30,-10), (10,20) or (30,60].
C8_ZoneSumCountsOverlapsTwice ==
    (op = "analyze_contact_zones" /\ config = DefaultConfig /\ arg.rows # <<>>) =>
        LET twice == CountAngles(LAMBDA a : (-10 <= a /\ a <= 10) \/ (20 <= a /\ a <= 30))
            never == CountAngles(LAMBDA a : a < -30 \/ a > 60)
            sum == RatAdd(ret.heel, RatAdd(ret.midfoot, ret.forefoot))
        IN  /\ sum = Rat(Len(arg.rows) + twice - never, config.sampling_rate)
            /\ (twice = 0 /\ never = 0) => sum = ret.total
            /\ RatLe(sum, RatAdd(ret.total, ret.total))

\* C8 witness: a slice under the default ranges with a sample in an overlap, so
\* that the zone times add up to more than the total
C8_Witness ==
    /\ op = "analyze_contact_zones"
    /\ config = DefaultConfig
    /\ Len(arg.rows) >= 2
    /\ \E i \in 1..Len(arg.rows) : arg.rows[i].angle_x = 10
    /\ \E i \in 1..Len(arg.rows) : arg.rows[i].angle_x = 15
    /\ RatLt(ret.total, RatAdd(ret.heel, RatAdd(ret.midfoot, ret.forefoot)))

\* C9: for a non-empty slice and any zone ranges, total = samples /
\* sampling_rate and each of the heel, midfoot and forefoot times lies in
\* [0, total].
C9_ZoneTimesWithinTotal ==
    (op = "analyze_contact_zones" /\ arg.rows # <<>>) =>
        /\ ret.total = Rat(Len(arg.rows), config.sampling_rate)
        /\ \A zone \in {"heel", "midfoot", "forefoot"} :
               RatLe(Zero, ret[zone]) /\ RatLe(ret[zone], ret.total)

\* C9 witness: ranges other than the default, a zone holding the whole slice
\* and a zone holding none of it
C9_Witness ==
    /\ op = "analyze_contact_zones"
    /\ config # DefaultConfig
    /\ Len(arg.rows) >= 2
    /\ ret.midfoot = ret.total
    /\ ret.heel = Zero

(***************************************************************************)
(* analyze_contact_patterns applied to a list of events                    *)
(***************************************************************************)
MaxPatternEvents == 3

\* angle_x values of the default ranges: heel only, heel and midfoot, midfoot
\* only, midfoot and forefoot, forefoot only, no zone
PatternAngles == {-20, 0, 15, 20, 40, 61}

\* the event detect_ground_contact_events builds for one foot touching down
\* at start_time and leaving the ground duration later, at the given angle_x
StepEvent(foot_name, start_time, duration, angle) ==
    LET touch == [index |-> 0] @@ Sample(start_time, foot_name, [ZHit EXCEPT !.angle_x = angle])
        leave == [index |-> 1] @@ Sample(start_time + duration, foot_name, [Still EXCEPT !.angle_x = angle])
    IN  ContactEvent(Frame(<<touch, leave>>), foot_name, 0, 1)

\* one more event in the list, 400 ms after the one before
FeedPattern(angle) ==
    /\ op = "init"
    /\ Len(arg) < MaxPatternEvents
    /\ arg' = Append(arg, StepEvent("left", 400 * Len(arg), 200, angle))
    /\ UNCHANGED <<analyzer, op, ret>>

InitPatterns ==
    /\ Fresh(DefaultConfig)
    /\ op = "init"
    /\ arg = <<>>
    /\ ret = <<>>

AnalyzePatterns ==
    /\ op = "init"
    /\ ret' = analyze_contact_patterns(arg)
    /\ op' = "analyze_contact_patterns"
    /\ UNCHANGED <<analyzer, arg>>

NextPatterns ==
    \/ \E angle \in PatternAngles : FeedPattern(angle)
    \/ AnalyzePatterns

SpecPatterns == InitPatterns /\ [][NextPatterns]_vars

\* the number of events of the list whose dominant zone is zone
DominantCount(events, zone) ==
    Cardinality({i \in 1..Len(events) : max_zone(events[i].contact_zones) = zone})

\* C10: dominant_strike_pattern is the zone with the highest count of events
\* whose dominant zone it is, ties going to heel before midfoot before forefoot.
C10_DominantPatternTieBreak ==
    (op = "analyze_contact_patterns" /\ arg # <<>>) =>
        LET heel == DominantCount(arg, "heel")
            midfoot == DominantCount(arg, "midfoot")
            forefoot == DominantCount(arg, "forefoot")
        IN  ret.dominant_strike_pattern =
                IF heel >= midfoot /\ heel >= forefoot THEN "heel"
                ELSE IF midfoot >= forefoot THEN "midfoot"
                ELSE "forefoot"

\* C10 witness: midfoot and forefoot counts equal and above the heel count
C10_Witness ==
    /\ op = "analyze_contact_patterns"
    /\ DominantCount(arg, "midfoot") = DominantCount(arg, "forefoot")
    /\ DominantCount(arg, "midfoot") > DominantCount(arg, "heel")
    /\ ret.dominant_strike_pattern = "midfoot"

\* the zone with the largest time among heel, midfoot and forefoot, the
\* earliest of them on a tie
LargestZone(zones) ==
    IF RatLe(zones.midfoot, zones.heel) /\ RatLe(zones.forefoot, zones.heel) THEN "heel"
    ELSE IF RatLe(zones.forefoot, zones.midfoot) THEN "midfoot"
    ELSE "forefoot"

\* the number of events of the list whose largest zone is zone
LargestCount(events, zone) ==
    Cardinality({i \in 1..Len(events) : LargestZone(events[i].contact_zones) = zone})

\* C25: every event is counted under exactly one zone, the one with the
\* largest time among heel, midfoot and forefoot with ties going to the
\* earliest of them, never under 'total'; the three strike ratios are the
\* shares of these counts and add up to 1; an event with no sample in any
\* zone range is counted as a heel strike
C25_OneDominantZonePerEvent ==
    (op = "analyze_contact_patterns" /\ arg # <<>>) =>
        /\ \A i \in 1..Len(arg) :
               LET zones == arg[i].contact_zones
               IN  /\ max_zone(zones) = LargestZone(zones)
                   /\ max_zone(zones) # "total"
                   /\ (zones.heel = Zero /\ zones.midfoot = Zero /\ zones.forefoot = Zero)
                          => max_zone(zones) = "heel"
        /\ ret.heel_strike_ratio = Rat(LargestCount(arg, "heel"), Len(arg))
        /\ ret.midfoot_strike_ratio = Rat(LargestCount(arg, "midfoot"), Len(arg))
        /\ ret.forefoot_strike_ratio = Rat(LargestCount(arg, "forefoot"), Len(arg))
        /\ RatAdd(ret.heel_strike_ratio,
                  RatAdd(ret.midfoot_strike_ratio, ret.forefoot_strike_ratio)) = Rat(1, 1)

\* C25 witness: an event outside every zone range (a heel strike), an event
\* with equal midfoot and forefoot times (a midfoot strike) and a forefoot
\* strike
C25_Witness ==
    /\ op = "analyze_contact_patterns"
    /\ Len(arg) = 3
    /\ arg[1].contact_zones.heel = Zero
    /\ arg[1].contact_zones.midfoot = Zero
    /\ arg[1].contact_zones.forefoot = Zero
    /\ RatLt(Zero, arg[1].contact_zones.total)
    /\ arg[2].contact_zones.midfoot = arg[2].contact_zones.forefoot
    /\ RatLt(arg[2].contact_zones.heel, arg[2].contact_zones.midfoot)
    /\ ret.heel_strike_ratio = Rat(1, 3)
    /\ ret.midfoot_strike_ratio = Rat(1, 3)
    /\ ret.forefoot_strike_ratio = Rat(1, 3)

(***************************************************************************)
(* The computation of calculate_gait_metrics applied to two event lists    *)
(***************************************************************************)
MaxSteps == 3

\* the time from the end of a foot's last event to the start of its next, ms
Pauses == {0, 50, 300, 350}

\* contact durations at the two ends of the band, ms
StepDurations == {100, 500}

\* the end of the last event of a foot's list (0 for an empty list)
LastEnd(events) == IF events = <<>> THEN 0 ELSE events[Len(events)].end_time

\* one more event of one foot, pause after that foot's last event
FeedStep(foot_name, pause, duration) ==
    /\ op = "init"
    /\ Len(arg.left) + Len(arg.right) < MaxSteps
    /\ arg' = [arg EXCEPT ![foot_name] =
                  Append(@, StepEvent(foot_name, LastEnd(@) + pause, duration, 0))]
    /\ UNCHANGED <<analyzer, op, ret>>

InitMetrics ==
    /\ Fresh(DefaultConfig)
    /\ op = "init"
    /\ arg = [left |-> <<>>, right |-> <<>>]
    /\ ret = <<>>

ComputeMetrics ==
    /\ op = "init"
    /\ ret' = GaitMetrics(arg.left, arg.right)
    /\ op' = "calculate_gait_metrics"
    /\ UNCHANGED <<analyzer, arg>>

NextMetrics ==
    \/ \E foot_name \in {"left", "right"}, pause \in Pauses, duration \in StepDurations :
           FeedStep(foot_name, pause, duration)
    \/ ComputeMetrics

SpecMetrics == InitMetrics /\ [][NextMetrics]_vars

\* next.start - current.end for the i-th consecutive pair of a merged list
GapAfter(all_events, i) == all_events[i + 1].start_time - all_events[i].end_time

\* C2: the retained flight times are, in order, the gaps next.start -
\* current.end of the consecutive pairs of the merged list (whatever the feet)
\* that satisfy min_flight_duration <= gap <= max_flight_duration; no negative
\* or out-of-band gap is retained, and avg_flight_time is their mean.
C2_FlightTimesInBand ==
    op = "calculate_gait_metrics" =>
        LET g == config.gait_detection
            all_events == MergeEvents(arg.left, arg.right)
            gaps == [i \in 1..(Len(all_events) - 1) |-> GapAfter(all_events, i)]
            inband == Filter(gaps, LAMBDA v :
                          g.min_flight_duration <= v /\ v <= g.max_flight_duration)
            retained == FlightTimes(all_events)
        IN  /\ retained = inband
            /\ \A k \in 1..Len(retained) :
                   /\ retained[k] >= 0
                   /\ g.min_flight_duration <= retained[k]
                   /\ retained[k] <= g.max_flight_duration
            /\ ret # <<>> =>
                   ret.avg_flight_time = IF inband = <<>> THEN Zero ELSE Mean(inband)

\* C2 witness: an overlap between two events (a negative gap, dropped) and a
\* retained gap between events of different feet
C2_Witness ==
    /\ op = "calculate_gait_metrics"
    /\ ret # <<>>
    /\ LET all_events == MergeEvents(arg.left, arg.right)
       IN  /\ \E i \in 1..(Len(all_events) - 1) : GapAfter(all_events, i) < 0
           /\ \E i \in 1..(Len(all_events) - 1) :
                  /\ all_events[i].foot # all_events[i + 1].foot
                  /\ GapAfter(all_events, i) >= config.gait_detection.min_flight_duration
                  /\ GapAfter(all_events, i) <= config.gait_detection.max_flight_duration
           /\ Len(FlightTimes(all_events)) = 1

\* the position of event e in the list events (events of one call are distinct)
PositionIn(events, e) == CHOOSE i \in 1..Len(events) : events[i] = e

\* C11: the merged list is a permutation of left_events + right_events, its
\* start times are non-decreasing, events with equal start times keep the
\* order they have in the concatenation (so a left event precedes a right
\* event that starts at the same time), and sorting it again changes nothing
C11_MergeIsStableSort ==
    op = "calculate_gait_metrics" =>
        LET concatenation == arg.left \o arg.right
            all_events == MergeEvents(arg.left, arg.right)
            n == Len(all_events)
        IN  /\ n = Len(concatenation)
            /\ \A i \in 1..n :
                   Cardinality({j \in 1..n : all_events[j] = concatenation[i]})
                       = Cardinality({j \in 1..n : concatenation[j] = concatenation[i]})
            /\ \A i \in 1..(n - 1) : all_events[i].start_time <= all_events[i + 1].start_time
            /\ \A i, j \in 1..n :
                   (i < j /\ all_events[i].start_time = all_events[j].start_time) =>
                       /\ PositionIn(concatenation, all_events[i])
                              < PositionIn(concatenation, all_events[j])
                       /\ ~(all_events[i].foot = "right" /\ all_events[j].foot = "left")
            /\ SortByStart(all_events) = all_events
            /\ ret # <<>> => ret.step_count = n /\ ret.cadence = Cadence(all_events)

\* a left and a right event that start together, in a concatenation that is
\* not yet in start order
C11_Witness ==
    /\ op = "calculate_gait_metrics"
    /\ ret # <<>>
    /\ \E i \in 1..Len(arg.left), j \in 1..Len(arg.right) :
           arg.left[i].start_time = arg.right[j].start_time
    /\ \E i \in 1..Len(arg.left), j \in 1..Len(arg.right) :
           arg.right[j].start_time < arg.left[i].start_time

(***************************************************************************)
(* One analysis run on a fresh analyser: the sensor_data table, then load, *)
(* separate, calculate, report in the order main() and analyze_gait call   *)
(* them (calculate_gait_metrics may also come straight after the load)     *)
(***************************************************************************)
MaxRows == 5

PipelineMacs == {"A", "B"}

PipelineGaps == {100, 300}

PipelineReadings == {Still, ZHit}

\* one more row in theta_ai.sensor_data, gap after the last one
Ingest(device_mac, gap, reading) ==
    /\ op = "init"
    /\ Len(arg) < MaxRows
    /\ LET n == Len(arg)
           timestamp == IF n = 0 THEN 0 ELSE arg[n].timestamp + gap
       IN  arg' = Append(arg, Sample(timestamp, device_mac, reading))
    /\ UNCHANGED <<analyzer, op, ret>>

InitPipeline ==
    /\ Fresh(DefaultConfig)
    /\ op = "init"
    /\ arg = <<>>
    /\ ret = <<>>

RunLoad == op = "init" /\ load_data_from_db(arg)

RunSeparate == op = "load_data_from_db" /\ separate_foot_data

RunCalculate == op \in {"init", "load_data_from_db", "separate_foot_data"} /\ calculate_gait_metrics

RunReport == op = "calculate_gait_metrics" /\ generate_report

NextPipeline ==
    \/ \E device_mac \in PipelineMacs, gap \in PipelineGaps, reading \in PipelineReadings :
           Ingest(device_mac, gap, reading)
    \/ RunLoad
    \/ RunSeparate
    \/ RunCalculate
    \/ RunReport

SpecPipeline == InitPipeline /\ [][NextPipeline]_vars

\* the events calculate_gait_metrics detected: those of the two feet it left in
\* the analyser
EventsOfFeet ==
    detect_ground_contact_events(left_foot_data, "left")
    \o detect_ground_contact_events(right_foot_data, "right")

\* C5: for a non-empty sample table, calculate_gait_metrics raises nothing, and
\* when the two feet together yield fewer than 2 retained contact events it
\* returns the empty metrics dict
C5_FewEventsReturnEmpty ==
    (op = "calculate_gait_metrics" /\ ~NoData(data)) =>
        /\ ret # Raised("AttributeError")
        /\ Len(EventsOfFeet) < 2 => ret = <<>>

\* a table of two devices with exactly one retained event in all, and the
\* empty dict returned for it
C5_Witness ==
    /\ op = "calculate_gait_metrics"
    /\ ~NoData(data)
    /\ Len(Devices(data)) = 2
    /\ Len(EventsOfFeet) = 1
    /\ ret = <<>>

(***************************************************************************)
(* One analysis run on a fresh analyser over a table of whole strides: a   *)
(* stride is a sample at rest, a sample in contact and a sample at rest    *)
(* again, all of one device                                                *)
(***************************************************************************)
MaxStrides == 3

\* the time between a stride's first two samples, and from the previous stride
StrideGaps == {100, 300}

\* the time the contact of a stride lasts; 600 ms is outside the retained band
StrideDurations == {100, 300, 600}

\* three more rows in theta_ai.sensor_data: one stride of device_mac
IngestStride(device_mac, gap, duration) ==
    /\ op = "init"
    /\ Len(arg) < 3 * MaxStrides
    /\ LET n == Len(arg)
           rest == IF n = 0 THEN 0 ELSE arg[n].timestamp + gap
       IN  arg' = arg \o <<Sample(rest, device_mac, Still),
                           Sample(rest + gap, device_mac, ZHit),
                           Sample(rest + gap + duration, device_mac, Still)>>
    /\ UNCHANGED <<analyzer, op, ret>>

NextStrides ==
    \/ \E device_mac \in PipelineMacs, gap \in StrideGaps, duration \in StrideDurations :
           IngestStride(device_mac, gap, duration)
    \/ RunLoad
    \/ RunSeparate
    \/ RunCalculate
    \/ RunReport

SpecStrides == InitPipeline /\ [][NextStrides]_vars

\* the loaded table is non-empty and all of one device
SingleDevice(df) == ~NoData(df) /\ Len(Devices(df)) = 1

\* C6: with a single device in the table, separate_foot_data (called directly
\* or by calculate_gait_metrics) makes the left foot the whole table and the
\* right foot empty; then, with at least 2 left events, calculate_gait_metrics
\* raises nothing and reports right_step_count = 0, right_avg_contact_time = 0
\* and lr_contact_time_diff = 0; whenever metrics are returned,
\* lr_contact_time_diff is |left_avg - right_avg| if both feet have events and
\* 0 otherwise
C6_SingleDeviceIsLeftFoot ==
    /\ (op \in {"separate_foot_data", "calculate_gait_metrics"} /\ SingleDevice(data)) =>
           /\ left_foot_data = data
           /\ right_foot_data = EmptyFrame
    /\ (op = "separate_foot_data" /\ SingleDevice(data)) => ret = <<data, EmptyFrame>>
    /\ (/\ op = "calculate_gait_metrics"
        /\ SingleDevice(data)
        /\ Len(detect_ground_contact_events(left_foot_data, "left")) >= 2) =>
           /\ ret # Raised("AttributeError")
           /\ ret # <<>>
           /\ ret.right_step_count = 0
           /\ ret.right_avg_contact_time = Zero
           /\ ret.lr_contact_time_diff = Zero
    /\ (op = "calculate_gait_metrics" /\ ret # Raised("AttributeError") /\ ret # <<>>) =>
           ret.lr_contact_time_diff =
               IF ret.left_step_count = 0 \/ ret.right_step_count = 0 THEN Zero
               ELSE RatAbs(RatSub(ret.left_avg_contact_time, ret.right_avg_contact_time))

\* one device, two retained left events of different durations, metrics returned
C6_Witness ==
    /\ op = "calculate_gait_metrics"
    /\ SingleDevice(data)
    /\ ret # Raised("AttributeError")
    /\ ret # <<>>
    /\ ret.left_step_count = 2
    /\ ret.left_avg_contact_time = Rat(200, 1)
    /\ Len(left_foot_data.rows) = 9

\* the index labels of the rows of df
Labels(df) == {df.rows[i].index : i \in 1..Len(df.rows)}

\* the distinct device identifiers of df
DeviceSet(df) == {df.rows[i].device_mac : i \in 1..Len(df.rows)}

\* C20: with exactly two device identifiers, the left foot holds the samples
\* of the identifier of the first row of the table and the right foot those
\* of the other identifier, whatever their lexical order; no sample is in both
\* feet, every sample is in one of them, and each foot keeps its samples in
\* the order of the table
C20_TwoDevicesFirstSeenIsLeft ==
    (op = "separate_foot_data" /\ ~NoData(data) /\ Cardinality(DeviceSet(data)) = 2) =>
        LET first == data.rows[1].device_mac
        IN  /\ ret = <<left_foot_data, right_foot_data>>
            /\ DeviceSet(left_foot_data) = {first}
            /\ DeviceSet(right_foot_data) = DeviceSet(data) \ {first}
            /\ Labels(left_foot_data) \cap Labels(right_foot_data) = {}
            /\ Labels(left_foot_data) \cup Labels(right_foot_data) = Labels(data)
            /\ Len(left_foot_data.rows) + Len(right_foot_data.rows) = Len(data.rows)
            /\ \A foot \in {left_foot_data, right_foot_data} :
                   /\ \A i \in 1..Len(foot.rows) : foot.rows[i] = Loc(data, foot.rows[i].index)
                   /\ \A i \in 1..(Len(foot.rows) - 1) :
                          foot.rows[i].index < foot.rows[i + 1].index

\* C20 witness: the first row belongs to the lexically later identifier, and
\* the samples of the two devices alternate
C20_Witness ==
    /\ op = "separate_foot_data"
    /\ Len(data.rows) = 5
    /\ \A i \in {1, 3, 5} : data.rows[i].device_mac = "B"
    /\ \A i \in {2, 4} : data.rows[i].device_mac = "A"
    /\ Len(left_foot_data.rows) = 3
    /\ left_foot_data.rows[1].device_mac = "B"
    /\ Len(right_foot_data.rows) = 2

(***************************************************************************)
(* One analysis run on a fresh analyser over a table of contact runs: a    *)
(* run is a sample at rest, 1 or 3 samples with the magnitude above its    *)
(* threshold, and a sample at rest 150 ms after the first of them, all of  *)
(* one device, with a sample at rest of the other device in between        *)
(***************************************************************************)
MaxRuns == 4

\* the time from the previous sample to the first sample of a run, ms
RunGaps == {200, 850}

\* the number of in-contact samples of a run
RunSamples == {1, 3}

OtherMac(device_mac) == IF device_mac = "A" THEN "B" ELSE "A"

\* the rows of one run of device_mac whose first sample is at time rest
RunRows(device_mac, rest, samples) ==
    <<Sample(rest, device_mac, Still), Sample(rest + 50, device_mac, MHit)>>
    \o (IF samples = 3 THEN <<Sample(rest + 100, device_mac, MHit)>> ELSE <<>>)
    \o <<Sample(rest + 125, OtherMac(device_mac), Still)>>
    \o (IF samples = 3 THEN <<Sample(rest + 150, device_mac, MHit)>> ELSE <<>>)
    \o <<Sample(rest + 200, device_mac, Still)>>

\* the runs in a table: a run starts where a sample at rest is directly
\* followed by a sample of the same device above the magnitude threshold
RunCount(table) ==
    Cardinality({i \in 1..(Len(table) - 1) :
                    /\ table[i].device_mac = table[i + 1].device_mac
                    /\ table[i].accel_magnitude = Still.accel_magnitude
                    /\ table[i + 1].accel_magnitude = MHit.accel_magnitude})

\* the rows of one more run in theta_ai.sensor_data
IngestRun(device_mac, gap, samples) ==
    /\ op = "init"
    /\ RunCount(arg) < MaxRuns
    /\ LET n == Len(arg)
           rest == IF n = 0 THEN 0 ELSE arg[n].timestamp + gap
       IN  arg' = arg \o RunRows(device_mac, rest, samples)
    /\ UNCHANGED <<analyzer, op, ret>>

NextRuns ==
    \/ \E device_mac \in PipelineMacs, gap \in RunGaps, samples \in RunSamples :
           IngestRun(device_mac, gap, samples)
    \/ RunLoad
    \/ RunSeparate
    \/ RunCalculate
    \/ RunReport

SpecRuns == InitPipeline /\ [][NextRuns]_vars

\* the samples of one device, in table order
SamplesOf(table, device_mac) == SelectSeq(table, LAMBDA r : r.device_mac = device_mac)

\* accel_magnitude above 1.2 g with the angular rate below the 50 deg/s gate
AboveMagnitude(r) == r.accel_magnitude > 12 /\ r.gyro_magnitude < 50

\* the first positions of the maximal stretches of AboveMagnitude samples
RunStarts(samples) ==
    {i \in 1..Len(samples) :
        AboveMagnitude(samples[i]) /\ (i = 1 \/ ~AboveMagnitude(samples[i - 1]))}

\* device_mac shows exactly three runs in the table, starts out of contact,
\* every run is followed by an out-of-contact sample of that device 150 ms
\* after the run's first sample
ThreeRunsOf(table, device_mac) ==
    LET samples == SamplesOf(table, device_mac)
    IN  /\ Cardinality(RunStarts(samples)) = 3
        /\ ~AboveMagnitude(samples[1])
        /\ \A i \in RunStarts(samples) :
               \E j \in (i + 1)..Len(samples) :
                   /\ ~AboveMagnitude(samples[j])
                   /\ \A k \in i..(j - 1) : AboveMagnitude(samples[k])
                   /\ samples[j].timestamp - samples[i].timestamp = 150

\* C12: two devices, the first-seen one with three runs above the magnitude
\* threshold of 0.15 s each, each followed by out-of-contact samples: the run
\* returns metrics, detects exactly 3 events of 0.15 s on the left foot,
\* left_step_count = 3 and cadence > 0
C12_ThreeRunsThreeEvents ==
    (/\ op = "calculate_gait_metrics"
     /\ Len(arg) > 0
     /\ data = LoadedFrame(arg)
     /\ Len(Unique([i \in 1..Len(arg) |-> arg[i].device_mac])) = 2
     /\ ThreeRunsOf(arg, arg[1].device_mac)) =>
        /\ ret # Raised("AttributeError")
        /\ ret # <<>>
        /\ left_foot_data.rows # <<>>
        /\ \A i \in 1..Len(left_foot_data.rows) :
               left_foot_data.rows[i].device_mac = arg[1].device_mac
        /\ LET left_events == detect_ground_contact_events(left_foot_data, "left")
           IN  /\ Len(left_events) = 3
               /\ \A k \in 1..3 : left_events[k].duration = 150
        /\ ret.left_step_count = 3
        /\ RatLt(Zero, ret.cadence)

\* device A first with three runs, one of them of a single sample, and a run
\* of device B as well
C12_Witness ==
    /\ op = "calculate_gait_metrics"
    /\ Len(arg) > 0
    /\ arg[1].device_mac = "A"
    /\ data = LoadedFrame(arg)
    /\ ThreeRunsOf(arg, "A")
    /\ Cardinality(RunStarts(SamplesOf(arg, "B"))) = 1
    /\ Len(arg) \in {18, 20}
    /\ ret # <<>>
    /\ ret # Raised("AttributeError")
    /\ ret.left_step_count = 3
    /\ ret.right_step_count = 1

(***************************************************************************)
(* One analyser object used for any sequence of calls                      *)
(***************************************************************************)
\* one device, two steps
TableOneDevice ==
    <<Sample(0, "A", Still), Sample(100, "A", ZHit), Sample(300, "A", Still),
      Sample(400, "A", MHit), Sample(600, "A", Still)>>

\* one device, one step
TableOneStep == <<Sample(0, "A", Still), Sample(100, "A", ZHit), Sample(300, "A", Still)>>

\* two devices sampled together, A first; one step each, B's 50 ms after A's
TableTwoDevices ==
    <<Sample(0, "A", Still), Sample(0, "B", Still),
      Sample(100, "A", ZHit), Sample(100, "B", Still),
      Sample(350, "A", Still), Sample(350, "B", MHit),
      Sample(400, "A", Still), Sample(400, "B", MHit),
      Sample(600, "A", Still), Sample(600, "B", Still)>>

\* two devices, the lexically later one seen first; two steps on B, one on A
TableLaterMacFirst ==
    <<Sample(0, "B", Still), Sample(50, "A", Still),
      Sample(100, "B", ZHit), Sample(150, "A", Still),
      Sample(250, "B", Still), Sample(300, "A", ZHit),
      Sample(450, "B", MHit), Sample(500, "A", Still),
      Sample(550, "B", Still)>>

\* the tables a query can return; <<>> is an empty result set
Tables == {<<>>, TableOneDevice, TableOneStep, TableTwoDevices, TableLaterMacFirst}

Init ==
    /\ Fresh(DefaultConfig)
    /\ op = "init"
    /\ arg = <<>>
    /\ ret = <<>>

Next ==
    \/ \E table \in Tables : load_data_from_db(table)
    \/ load_data_from_db_fails
    \/ separate_foot_data
    \/ calculate_gait_metrics
    \/ generate_report

Spec == Init /\ [][Next]_vars

\* C4: when the analyser holds no samples (nothing loaded, or an empty table),
\* calculate_gait_metrics returns the empty metrics dict without raising
C4_Original == (op = "calculate_gait_metrics" /\ NoData(data)) => ret = <<>>

\* what happens instead on an analyser that never held a non-empty table: the
\* feet stay None and detect_ground_contact_events raises on None.empty
C4_RaisesOnNoSamples ==
    (op = "calculate_gait_metrics" /\ left_foot_data.none) => ret = Raised("AttributeError")

\* the report after that failed call is the fixed run-the-analysis-first message
C4_ReportAfterRaise ==
    /\ op = "generate_report"
    /\ NoData(data)
    /\ left_foot_data.none
    /\ ret = RunAnalysisFirst

\* the metrics a fresh analyser returns for a table df: separate_foot_data on
\* df, then calculate_gait_metrics
MetricsOfTable(df) ==
    The({GaitMetrics(detect_ground_contact_events(feet[1], "left"),
                     detect_ground_contact_events(feet[2], "right")) :
            feet \in {SplitFeet(df)}})

\* C13: after any sequence of loads, separate_foot_data and
\* calculate_gait_metrics calls, the metrics calculate_gait_metrics returns are
\* those of the most recently loaded (non-empty) table
C13_Original ==
    (op = "calculate_gait_metrics" /\ ~NoData(data)) => ret = MetricsOfTable(data)

\* what the call returns instead: the metrics of the two feet the analyser
\* holds, which are replaced only by separate_foot_data
C13_MetricsOfFeetHeld ==
    (op = "calculate_gait_metrics" /\ ~left_foot_data.none /\ ~right_foot_data.none) =>
        ret = GaitMetrics(detect_ground_contact_events(left_foot_data, "left"),
                          detect_ground_contact_events(right_foot_data, "right"))

\* a call that returned the metrics of an earlier table's split
C13_StaleSplit ==
    /\ op = "calculate_gait_metrics"
    /\ ~NoData(data)
    /\ <<left_foot_data, right_foot_data>> # SplitFeet(data)
    /\ ret # <<>>
    /\ ret # MetricsOfTable(data)

\* C14: after a calculate_gait_metrics call that returns, analysis_results is
\* the value the call returned (empty when it found too few events)
C14_Original ==
    (op = "calculate_gait_metrics" /\ ret # Raised("AttributeError")) => analysis_results = ret

\* what holds instead: a call that returns the empty dict leaves the results
\* of an earlier call in place
C14_ResultsKeptOnEmptyReturn ==
    [][(op' = "calculate_gait_metrics" /\ ret' = <<>>) => analysis_results' = analysis_results]_vars

\* a report formatted from an earlier run's metrics: the feet the analyser
\* holds yield fewer than 2 events
C14_StaleReport ==
    /\ op = "generate_report"
    /\ ~left_foot_data.none
    /\ ~right_foot_data.none
    /\ Len(EventsOfFeet) < 2
    /\ ret # RunAnalysisFirst
    /\ ret = ReportOf(analysis_results)

(***************************************************************************)
(* Two analysis runs on the analyser object that main.py shares between    *)
(* its requests: each run makes the calls of analyze_gait in order on its  *)
(* own table, and the calls of the two runs interleave. arg holds the runs *)
(* (their tables, the call each is at, what each was returned), op is      *)
(* "idle" between calls and "invoke" once a run has been picked to call    *)
(***************************************************************************)
RunIds == {1, 2}

\* the tables the two queries return (non-empty: analyze_gait stops at an
\* empty result)
RunTables == {TableOneDevice, TableOneStep, TableTwoDevices, TableLaterMacFirst}

\* a run's place before its first call
NotStarted == "load_data_from_db"

Finished == "done"

InitShared ==
    /\ Fresh(DefaultConfig)
    /\ op = "idle"
    /\ ret = <<>>
    /\ \E t1 \in RunTables, t2 \in RunTables :
           arg = [table |-> <<t1, t2>>,
                  pc |-> <<NotStarted, NotStarted>>,
                  caller |-> 0,
                  overlapped |-> FALSE,
                  metrics |-> <<<<>>, <<>>>>,
                  report |-> <<<<>>, <<>>>>]

\* run is the next to make a call on the shared analyser
Invoke(run) ==
    /\ op = "idle"
    /\ arg.pc[run] # Finished
    /\ arg' = [arg EXCEPT !.caller = run,
                          !.overlapped = @ \/ \E other \in RunIds \ {run} :
                                                 arg.pc[other] \notin {NotStarted, Finished}]
    /\ op' = "invoke"
    /\ UNCHANGED <<analyzer, ret>>

\* line 129
CallLoad ==
    /\ op = "invoke"
    /\ arg.pc[arg.caller] = "load_data_from_db"
    /\ load_data_from_db(arg.table[arg.caller])

\* line 135
CallSeparate ==
    /\ op = "invoke"
    /\ arg.pc[arg.caller] = "separate_foot_data"
    /\ separate_foot_data

\* line 138
CallCalculate ==
    /\ op = "invoke"
    /\ arg.pc[arg.caller] = "calculate_gait_metrics"
    /\ calculate_gait_metrics

\* line 144
CallReport ==
    /\ op = "invoke"
    /\ arg.pc[arg.caller] = "generate_report"
    /\ generate_report

\* the call analyze_gait makes after the one that returned ret (lines 131-144):
\* it stops at an empty table, at empty metrics and at an exception
NextCall(pc) ==
    IF pc = "load_data_from_db" THEN (IF IsEmpty(ret) THEN Finished ELSE "separate_foot_data")
    ELSE IF pc = "separate_foot_data" THEN "calculate_gait_metrics"
    ELSE IF pc = "calculate_gait_metrics"
         THEN (IF ret = <<>> \/ ret = Raised("AttributeError") THEN Finished
               ELSE "generate_report")
    ELSE Finished

\* the call returns to the run that made it
Return ==
    /\ op \notin {"idle", "invoke"}
    /\ arg.caller \in RunIds
    /\ LET run == arg.caller
           pc == arg.pc[run]
       IN  arg' = [arg EXCEPT !.caller = 0,
                              !.pc[run] = NextCall(pc),
                              !.metrics[run] = IF pc = "calculate_gait_metrics" THEN ret ELSE @,
                              !.report[run] = IF pc = "generate_report" THEN ret ELSE @]
    /\ op' = "idle"
    /\ UNCHANGED <<analyzer, ret>>

NextShared ==
    \/ \E run \in RunIds : Invoke(run)
    \/ CallLoad
    \/ CallSeparate
    \/ CallCalculate
    \/ CallReport
    \/ Return

SpecShared == InitShared /\ [][NextShared]_vars

\* run has been returned its metrics, and they and the report (if it got that
\* far) are those its own table yields on an analyser of its own
OwnResults(run) ==
    /\ arg.pc[run] \in {"generate_report", Finished} =>
           arg.metrics[run] = MetricsOfTable(LoadedFrame(arg.table[run]))
    /\ (arg.pc[run] = Finished /\ arg.metrics[run] # <<>>) =>
           arg.report[run] = ReportOf(MetricsOfTable(LoadedFrame(arg.table[run])))

\* C15: runs whose calls interleave in any order on the analyser object of the
\* web API each get the metrics and the report of their own table
C15_Original == \A run \in RunIds : OwnResults(run)

\* what holds instead: runs that do not overlap (each makes all its calls
\* before or after the other's) get their own results
C15_SerialRunsIsolated == ~arg.overlapped => \A run \in RunIds : OwnResults(run)

\* a run that was returned the metrics of the other run's table
C15_OtherRunsMetrics ==
    \E run \in RunIds, other \in RunIds :
        /\ run # other
        /\ arg.pc[run] = Finished
        /\ arg.metrics[run] # <<>>
        /\ arg.metrics[run] # MetricsOfTable(LoadedFrame(arg.table[run]))
        /\ arg.metrics[run] = MetricsOfTable(LoadedFrame(arg.table[other]))

(***************************************************************************)
(* One analysis run on a fresh analyser over a table of one device in      *)
(* which some samples have no accel_z                                      *)
(***************************************************************************)
MaxSamples == 5

SampleGaps == {50, 100}

SampleReadings == {Still, ZHit, Dropout}

\* one more row of device A in theta_ai.sensor_data, gap after the last one
IngestSample(gap, reading) ==
    /\ op = "init"
    /\ Len(arg) < MaxSamples
    /\ LET n == Len(arg)
           timestamp == IF n = 0 THEN 0 ELSE arg[n].timestamp + gap
       IN  arg' = Append(arg, Sample(timestamp, "A", reading))
    /\ UNCHANGED <<analyzer, op, ret>>

NextSamples ==
    \/ \E gap \in SampleGaps, reading \in SampleReadings : IngestSample(gap, reading)
    \/ RunLoad
    \/ RunSeparate
    \/ RunCalculate
    \/ RunReport

SpecSamples == InitPipeline /\ [][NextSamples]_vars

\* the events a fresh analyser detects on the left foot of a table
LeftEventsOfTable(table) ==
    IF table = <<>> THEN <<>>
    ELSE detect_ground_contact_events(SplitFeet(LoadedFrame(table))[1], "left")

\* the table without its malformed samples
WellFormed(table) == SelectSeq(table, LAMBDA r : ~IsNaN(r.accel_z))

\* the table with every malformed sample read as a sample at rest
ReadAsAtRest(table) ==
    [i \in 1..Len(table) |->
        IF IsNaN(table[i].accel_z)
        THEN [table[i] EXCEPT !.accel_z = 0, !.accel_magnitude = 0]
        ELSE table[i]]

\* C16: the run does not abort on malformed samples, and the events detected
\* are those detected on the same sequence without the malformed samples
C16_Original ==
    (op = "calculate_gait_metrics" /\ arg # <<>> /\ data = LoadedFrame(arg)) =>
        /\ ret # Raised("AttributeError")
        /\ detect_ground_contact_events(left_foot_data, "left")
               = LeftEventsOfTable(WellFormed(arg))

\* what holds instead: the run does not abort, and a malformed sample counts as
\* a sample out of contact, which ends the in-contact run it lies in
C16_MalformedIsOutOfContact ==
    (op = "calculate_gait_metrics" /\ arg # <<>> /\ data = LoadedFrame(arg)) =>
        /\ ret # Raised("AttributeError")
        /\ detect_ground_contact_events(left_foot_data, "left")
               = LeftEventsOfTable(ReadAsAtRest(arg))

\* a malformed sample inside an in-contact run of 150 ms: no event is detected,
\* where the sequence without the sample has one
C16_SplitRun ==
    /\ op = "calculate_gait_metrics"
    /\ data = LoadedFrame(arg)
    /\ Len(arg) = 5
    /\ IsNaN(arg[3].accel_z)
    /\ \A i \in {2, 4} : InContact(arg[i])
    /\ detect_ground_contact_events(left_foot_data, "left") = <<>>
    /\ Len(LeftEventsOfTable(WellFormed(arg))) = 1

(***************************************************************************)
(* One analysis run on an analyser whose contact duration limits were      *)
(* assigned in analyzer.config after construction                          *)
(***************************************************************************)
WithContactDuration(min_contact_duration, max_contact_duration) ==
    [DefaultConfig EXCEPT !.gait_detection.min_contact_duration = min_contact_duration,
                          !.gait_detection.max_contact_duration = max_contact_duration]

\* the default limits; the two limits exchanged; limits that admit one duration
DurationConfigs ==
    {DefaultConfig, WithContactDuration(500, 100), WithContactDuration(200, 200)}

\* no duration passes the filter min_contact_duration <= duration <= max_contact_duration
InvalidConfig(c) ==
    c.gait_detection.min_contact_duration > c.gait_detection.max_contact_duration

InitSetup ==
    /\ \E c \in DurationConfigs : Fresh(c)
    /\ op = "init"
    /\ arg = <<>>
    /\ ret = <<>>

NextSetup ==
    \/ \E gap \in SampleGaps, reading \in PipelineReadings : IngestSample(gap, reading)
    \/ RunLoad
    \/ RunSeparate
    \/ RunCalculate
    \/ RunReport

SpecSetup == InitSetup /\ [][NextSetup]_vars

\* C17: with min_contact_duration > max_contact_duration no detection runs to
\* a silent result: the analysis of a loaded table ends in a raised error
C17_Original ==
    (InvalidConfig(config) /\ op = "calculate_gait_metrics"
        /\ arg # <<>> /\ data = LoadedFrame(arg)) =>
        "raised" \in DOMAIN ret

\* what holds instead: the detection runs, discards every candidate event and
\* the analysis returns the empty result without an error
C17_InvalidConfigDiscardsAll ==
    (InvalidConfig(config) /\ op = "calculate_gait_metrics"
        /\ arg # <<>> /\ data = LoadedFrame(arg)) =>
        /\ ret = <<>>
        /\ detect_ground_contact_events(left_foot_data, "left") = <<>>
        /\ analysis_results = <<>>

\* an in-contact run of 100 ms analysed under exchanged limits: no error, no
\* event, no metrics
C17_SilentlyEmpty ==
    /\ InvalidConfig(config)
    /\ op = "calculate_gait_metrics"
    /\ data = LoadedFrame(arg)
    /\ Len(arg) >= 3
    /\ ~InContact(arg[1]) /\ InContact(arg[2]) /\ ~InContact(arg[3])
    /\ arg[3].timestamp - arg[2].timestamp = 100
    /\ ret = <<>>

(***************************************************************************)
(* generate_recommendations applied to the metrics of two event lists      *)
(***************************************************************************)
\* angle_x of a heel, a midfoot and a forefoot contact
AdviceAngles == {-20, 15, 40}

\* a pause inside the flight band and one above it, ms
AdvicePauses == {200, 350}

AdviceDurations == {100, 300, 500}

\* one more event of one foot, pause after that foot's last event
FeedStride(foot_name, pause, duration, angle) ==
    /\ op = "init"
    /\ Len(arg.left) + Len(arg.right) < MaxSteps
    /\ arg' = [arg EXCEPT ![foot_name] =
                  Append(@, StepEvent(foot_name, LastEnd(@) + pause, duration, angle))]
    /\ UNCHANGED <<analyzer, op, ret>>

\* the call generate_report makes once calculate_gait_metrics has stored the
\* metrics of the two lists
Recommend ==
    /\ op = "init"
    /\ \E metrics \in {GaitMetrics(arg.left, arg.right)} :
           /\ metrics # <<>>
           /\ ret' = generate_recommendations(metrics)
    /\ op' = "generate_recommendations"
    /\ UNCHANGED <<analyzer, arg>>

NextAdvice ==
    \/ \E foot_name \in {"left", "right"}, pause \in AdvicePauses,
          duration \in AdviceDurations, angle \in AdviceAngles :
           FeedStride(foot_name, pause, duration, angle)
    \/ Recommend

SpecAdvice == InitMetrics /\ [][NextAdvice]_vars

\* none of the four rules ratio > 1.5, lr_contact_time_diff > 0.02 s, dominant
\* pattern heel or forefoot, a foot's risk high
NoListedRule(metrics) ==
    /\ RatLe(Get(metrics, "contact_flight_ratio", Zero), Rat(15, 10))
    /\ RatLe(Get(metrics, "lr_contact_time_diff", Zero), Rat(20, 1))
    /\ Get(metrics, "dominant_strike_pattern", "") \notin {"heel", "forefoot"}
    /\ Get(metrics, "left_overpronation_risk", "low") # "high"
    /\ Get(metrics, "right_overpronation_risk", "low") # "high"

\* C18: generate_recommendations is a function of the metrics that emits the
\* default line exactly when contact_flight_ratio <= 1.5, lr_contact_time_diff
\* <= 0.02 s, the dominant pattern is neither heel nor forefoot and neither
\* foot's risk is high, a ratio of 0 for want of flight intervals included
C18_Original ==
    op = "generate_recommendations" =>
        LET metrics == GaitMetrics(arg.left, arg.right)
        IN  /\ ret = generate_recommendations(metrics)
            /\ ret = <<"looks_fine">> <=> NoListedRule(metrics)

\* what holds instead: the default line also requires contact_flight_ratio >=
\* 0.8, below which the line for a low ratio is emitted
C18_DefaultNeedsRatioInBand ==
    op = "generate_recommendations" =>
        LET metrics == GaitMetrics(arg.left, arg.right)
        IN  /\ ret = generate_recommendations(metrics)
            /\ ret = <<"looks_fine">> <=>
                    /\ NoListedRule(metrics)
                    /\ RatLe(Rat(8, 10), metrics.contact_flight_ratio)
            /\ RatLt(metrics.contact_flight_ratio, Rat(8, 10)) => ret[1] = "ratio_low"

\* no flight interval retained and no listed rule firing: the only line is
\* the one for a low ratio
C18_NoFlightReadsAsLowRatio ==
    /\ op = "generate_recommendations"
    /\ FlightTimes(MergeEvents(arg.left, arg.right)) = <<>>
    /\ GaitMetrics(arg.left, arg.right).contact_flight_ratio = Zero
    /\ NoListedRule(GaitMetrics(arg.left, arg.right))
    /\ ret = <<"ratio_low">>

\* the default line, emitted for a ratio inside [0.8, 1.5]
C18_LooksFine == op = "generate_recommendations" /\ ret = <<"looks_fine">>

(***************************************************************************)
(* One analysis run on a fresh analyser over a table of three devices:     *)
(* contact runs of the devices A and B, and single samples of a device C   *)
(***************************************************************************)
MaxDeviceRuns == 2

MaxExtras == 2

ExtraGaps == {25}

ExtraReadings == {Still, MHit}

\* the rows of table that belong to device_mac
CountOf(table, device_mac) == Len(SelectSeq(table, LAMBDA r : r.device_mac = device_mac))

\* the rows of one more run of three in-contact samples in theta_ai.sensor_data
IngestDeviceRun(device_mac, gap) ==
    /\ op = "init"
    /\ Len(arg) - CountOf(arg, "C") < 6 * MaxDeviceRuns
    /\ LET n == Len(arg)
           rest == IF n = 0 THEN 0 ELSE arg[n].timestamp + gap
       IN  arg' = arg \o RunRows(device_mac, rest, 3)
    /\ UNCHANGED <<analyzer, op, ret>>

\* one more row of device C in theta_ai.sensor_data
IngestExtra(gap, reading) ==
    /\ op = "init"
    /\ CountOf(arg, "C") < MaxExtras
    /\ LET n == Len(arg)
           timestamp == IF n = 0 THEN 0 ELSE arg[n].timestamp + gap
       IN  arg' = Append(arg, Sample(timestamp, "C", reading))
    /\ UNCHANGED <<analyzer, op, ret>>

NextDevices ==
    \/ \E device_mac \in PipelineMacs, gap \in RunGaps : IngestDeviceRun(device_mac, gap)
    \/ \E gap \in ExtraGaps, reading \in ExtraReadings : IngestExtra(gap, reading)
    \/ RunLoad
    \/ RunSeparate
    \/ RunCalculate
    \/ RunReport

SpecDevices == InitPipeline /\ [][NextDevices]_vars

\* the device identifiers of table in order of first occurrence
MacsOf(table) == Unique([i \in 1..Len(table) |-> table[i].device_mac])

\* the rows of table of its first two device identifiers
FirstTwoOnly(table) ==
    LET macs == MacsOf(table)
    IN  SelectSeq(table, LAMBDA r : r.device_mac \in {macs[1], macs[2]})

\* C21: with more than two device identifiers, the samples of every device
\* after the first two by first occurrence are in neither foot, and the
\* metrics calculate_gait_metrics returns are those of the table without these
\* samples
C21_FurtherDevicesIgnored ==
    (/\ op = "calculate_gait_metrics"
     /\ arg # <<>>
     /\ data = LoadedFrame(arg)
     /\ Len(MacsOf(arg)) > 2) =>
        LET macs == MacsOf(arg)
        IN  /\ \A i \in 1..Len(left_foot_data.rows) :
                   left_foot_data.rows[i].device_mac = macs[1]
            /\ \A i \in 1..Len(right_foot_data.rows) :
                   right_foot_data.rows[i].device_mac = macs[2]
            /\ Len(left_foot_data.rows) + Len(right_foot_data.rows)
                   = Len(arg) - CountOf(arg, macs[3])
            /\ ret = MetricsOfTable(LoadedFrame(FirstTwoOnly(arg)))

\* C21 witness: device C is the third identifier, two of its samples are above
\* the magnitude threshold, and metrics are returned
C21_Witness ==
    /\ op = "calculate_gait_metrics"
    /\ arg # <<>>
    /\ data = LoadedFrame(arg)
    /\ MacsOf(arg)[1] # "C"
    /\ Len(MacsOf(arg)) = 3
    /\ MacsOf(arg)[3] = "C"
    /\ Len(SelectSeq(arg, LAMBDA r : r.device_mac = "C" /\ InContact(r))) = 2
    /\ ret # <<>>
    /\ ret # Raised("AttributeError")
    /\ ret.step_count = 2

(***************************************************************************)
(* The computation of calculate_gait_metrics applied to two event lists,   *)
(* under the default limits and with min_contact_duration set to 0 (an     *)
(* event of duration 0 spans two samples with the same timestamp)          *)
(***************************************************************************)
CadenceConfigs == {DefaultConfig, WithContactDuration(0, 500)}

CadencePauses == {0, 350}

CadenceDurations == {0, 100}

\* one more event of one foot, of a duration the detection retains
FeedTimed(foot_name, pause, duration) ==
    /\ op = "init"
    /\ Len(arg.left) + Len(arg.right) < MaxSteps
    /\ DurationInBand(duration)
    /\ arg' = [arg EXCEPT ![foot_name] =
                  Append(@, StepEvent(foot_name, LastEnd(@) + pause, duration, 0))]
    /\ UNCHANGED <<analyzer, op, ret>>

InitCadence ==
    /\ \E c \in CadenceConfigs : Fresh(c)
    /\ op = "init"
    /\ arg = [left |-> <<>>, right |-> <<>>]
    /\ ret = <<>>

NextCadence ==
    \/ \E foot_name \in {"left", "right"}, pause \in CadencePauses, duration \in CadenceDurations :
           FeedTimed(foot_name, pause, duration)
    \/ ComputeMetrics

SpecCadence == InitCadence /\ [][NextCadence]_vars

\* C22: whenever metrics are returned, the merged list is in start order and
\* cadence = number of merged events / (end of the last merged event - start
\* of the first) * 60 per second (times are in ms), and cadence = 0 when that
\* elapsed time is not positive
C22_CadenceFormula ==
    (op = "calculate_gait_metrics" /\ ret # <<>>) =>
        LET all_events == MergeEvents(arg.left, arg.right)
            n == Len(all_events)
            elapsed == all_events[n].end_time - all_events[1].start_time
        IN  /\ n = Len(arg.left) + Len(arg.right)
            /\ \A i \in 1..(n - 1) : all_events[i].start_time <= all_events[i + 1].start_time
            /\ elapsed > 0 =>
                   /\ ret.cadence.d > 0
                   /\ ret.cadence.n * elapsed = n * 60 * 1000 * ret.cadence.d
            /\ elapsed <= 0 => ret.cadence = Zero

\* C22 witness: three events of both feet over 550 ms
C22_Witness ==
    /\ op = "calculate_gait_metrics"
    /\ ret # <<>>
    /\ Len(arg.left) = 2
    /\ Len(arg.right) = 1
    /\ ret.cadence = Rat(3 * 60 * 1000, 550)

\* two events of no duration at the same time: no elapsed time, cadence 0
C22_NoElapsedTime ==
    /\ op = "calculate_gait_metrics"
    /\ ret # <<>>
    /\ ret.step_count = 2
    /\ \A e \in {arg.left[i] : i \in 1..Len(arg.left)} \cup {arg.right[i] : i \in 1..Len(arg.right)} :
           e.start_time = 0 /\ e.end_time = 0
    /\ ret.cadence = Zero

(***************************************************************************)
(* The computation of calculate_gait_metrics applied to two event lists,   *)
(* under the default flight limits and under limits of 1 ms to 50 ms       *)
(***************************************************************************)
WithFlightDuration(min_flight_duration, max_flight_duration) ==
    [DefaultConfig EXCEPT !.gait_detection.min_flight_duration = min_flight_duration,
                          !.gait_detection.max_flight_duration = max_flight_duration]

FlightConfigs == {DefaultConfig, WithFlightDuration(1, 50)}

\* pauses of no time, at the two lower limits and above the default upper limit
FlightPauses == {0, 1, 50, 350}

InitFlight ==
    /\ \E c \in FlightConfigs : Fresh(c)
    /\ op = "init"
    /\ arg = [left |-> <<>>, right |-> <<>>]
    /\ ret = <<>>

NextFlight ==
    \/ \E foot_name \in {"left", "right"}, pause \in FlightPauses, duration \in StepDurations :
           FeedStep(foot_name, pause, duration)
    \/ ComputeMetrics

SpecFlight == InitFlight /\ [][NextFlight]_vars

\* the gaps between consecutive merged events that lie in the flight band
RetainedGaps(all_events) ==
    LET g == config.gait_detection
    IN  Filter([i \in 1..(Len(all_events) - 1) |->
                   all_events[i + 1].start_time - all_events[i].end_time],
               LAMBDA v : g.min_flight_duration <= v /\ v <= g.max_flight_duration)

\* C23: with min_flight_duration > 0, whenever metrics are returned: if a
\* flight interval is retained, avg_flight_time is positive (the divisor is
\* not zero) and contact_flight_ratio * avg_flight_time = avg_contact_time; if
\* none is retained, contact_flight_ratio, avg_flight_time and flight_time_std
\* are 0
C23_RatioDefinedOrZero ==
    (/\ op = "calculate_gait_metrics"
     /\ ret # <<>>
     /\ config.gait_detection.min_flight_duration > 0) =>
        LET all_events == MergeEvents(arg.left, arg.right)
            retained == RetainedGaps(all_events)
            contact_times == [i \in 1..Len(all_events) |-> all_events[i].duration]
        IN  /\ retained # <<>> =>
                   /\ Sum(retained) > 0
                   /\ ret.avg_flight_time.n * Len(retained) = Sum(retained) * ret.avg_flight_time.d
                   /\ ret.avg_contact_time.n * Len(all_events)
                          = Sum(contact_times) * ret.avg_contact_time.d
                   /\ ret.contact_flight_ratio.d > 0
                   /\ ret.contact_flight_ratio.n * ret.avg_flight_time.n * ret.avg_contact_time.d
                          = ret.avg_contact_time.n * ret.avg_flight_time.d * ret.contact_flight_ratio.d
            /\ retained = <<>> =>
                   /\ ret.contact_flight_ratio = Zero
                   /\ ret.avg_flight_time = Zero
                   /\ ret.flight_time_std = Zero

\* C23 witness: under the limits of 1 ms to 50 ms, a flight of 1 ms is
\* retained next to a pause of no time that is not
C23_Witness ==
    /\ op = "calculate_gait_metrics"
    /\ ret # <<>>
    /\ config # DefaultConfig
    /\ ret.step_count = 3
    /\ ret.avg_flight_time = Rat(1, 1)
    /\ ret.contact_flight_ratio = Rat(100, 1)
    /\ \E i \in 1..2 : GapAfter(MergeEvents(arg.left, arg.right), i) = 0

\* no flight retained: the three entries are 0
C23_NoFlightRetained ==
    /\ op = "calculate_gait_metrics"
    /\ ret # <<>>
    /\ RetainedGaps(MergeEvents(arg.left, arg.right)) = <<>>
    /\ ret.contact_flight_ratio = Zero
    /\ ret.avg_flight_time = Zero

(***************************************************************************)
(* analyze_center_of_pressure applied to two event lists whose events      *)
(* differ in their mean angles                                             *)
(***************************************************************************)
\* <<angle_x, angle_y>> of an event: two events have a standard deviation of
\* half the difference of their angles, so 10 and 15 are met exactly
Tilts == {<<0, 0>>, <<20, 0>>, <<22, 0>>, <<30, 0>>, <<0, 30>>, <<0, 32>>}

\* the event detect_ground_contact_events builds for one foot touching down
\* at start_time for 200 ms, at the given angles
TiltEvent(foot_name, start_time, tilt) ==
    LET touch == [index |-> 0]
                 @@ Sample(start_time, foot_name, [ZHit EXCEPT !.angle_x = tilt[1], !.angle_y = tilt[2]])
        leave == [index |-> 1]
                 @@ Sample(start_time + 200, foot_name, [Still EXCEPT !.angle_x = tilt[1], !.angle_y = tilt[2]])
    IN  ContactEvent(Frame(<<touch, leave>>), foot_name, 0, 1)

\* one more event of one foot, 200 ms after that foot's last event
FeedTilt(foot_name, tilt) ==
    /\ op = "init"
    /\ Len(arg.left) + Len(arg.right) < MaxSteps
    /\ arg' = [arg EXCEPT ![foot_name] =
                  Append(@, TiltEvent(foot_name, LastEnd(@) + 200, tilt))]
    /\ UNCHANGED <<analyzer, op, ret>>

AnalyzeCop ==
    /\ op = "init"
    /\ ret' = analyze_center_of_pressure(arg.left, arg.right)
    /\ op' = "analyze_center_of_pressure"
    /\ UNCHANGED <<analyzer, arg>>

NextCop ==
    \/ \E foot_name \in {"left", "right"}, tilt \in Tilts : FeedTilt(foot_name, tilt)
    \/ AnalyzeCop

SpecCop == InitMetrics /\ [][NextCop]_vars

\* the standard deviation of the integers xs is strictly above limit:
\* n * sum(x^2) - sum(x)^2 > limit^2 * n^2
DeviationAbove(xs, limit) ==
    LET n == Len(xs)
        squares == [i \in 1..n |-> xs[i] * xs[i]]
    IN  n * Sum(squares) - Sum(xs) * Sum(xs) > limit * limit * n * n

\* the risk level the two lists of per-event mean angles call for
RiskLevel(xs, ys) ==
    IF DeviationAbove(xs, 15) \/ DeviationAbove(ys, 15) THEN "high"
    ELSE IF DeviationAbove(xs, 10) \/ DeviationAbove(ys, 10) THEN "medium"
    ELSE "low"

\* C24: a foot with at least one event has overpronation_risk 'high' iff the
\* standard deviation of its per-event mean angles is strictly above 15 on
\* either axis, 'medium' iff neither is above 15 and one is strictly above 10,
\* 'low' otherwise (a single event is 'low'); a foot with no event has no
\* risk entry
C24_RiskLevels ==
    op = "analyze_center_of_pressure" =>
        \A foot_name \in {"left", "right"} :
            LET events == arg[foot_name]
                key == IF foot_name = "left" THEN "left_overpronation_risk"
                       ELSE "right_overpronation_risk"
                xs == [i \in 1..Len(events) |-> events[i].avg_angle_x.n]
                ys == [i \in 1..Len(events) |-> events[i].avg_angle_y.n]
            IN  /\ \A i \in 1..Len(events) :
                       events[i].avg_angle_x.d = 1 /\ events[i].avg_angle_y.d = 1
                /\ events = <<>> => key \notin DOMAIN ret
                /\ events # <<>> => key \in DOMAIN ret /\ ret[key] = RiskLevel(xs, ys)
                /\ Len(events) = 1 => ret[key] = "low"

\* C24 witness: the left foot's deviation is exactly 15 on one axis and 0 on
\* the other, which is 'medium'; the right foot has one event, which is 'low'
C24_Witness ==
    /\ op = "analyze_center_of_pressure"
    /\ Len(arg.left) = 2
    /\ Len(arg.right) = 1
    /\ arg.left[1].avg_angle_y = Zero
    /\ arg.left[2].avg_angle_y = Rat(30, 1)
    /\ arg.left[1].avg_angle_x = arg.left[2].avg_angle_x
    /\ ret.left_overpronation_risk = "medium"
    /\ ret.right_overpronation_risk = "low"

\* a deviation of exactly 10 on one axis is 'low', and a foot without events
\* has no entry
C24_OtherLevels ==
    /\ op = "analyze_center_of_pressure"
    /\ Len(arg.left) = 2
    /\ arg.right = <<>>
    /\ "right_overpronation_risk" \notin DOMAIN ret
    /\ arg.left[1].avg_angle_x = Zero
    /\ arg.left[2].avg_angle_x = Rat(20, 1)
    /\ arg.left[1].avg_angle_y = arg.left[2].avg_angle_y
    /\ ret.left_overpronation_risk = "low"

(***************************************************************************)
(* detect_ground_contact_events applied to one device's samples whose      *)
(* timestamps do not decrease and may repeat                               *)
(***************************************************************************)
TieGaps == {0, 100}

TieReadings == {Still, ZHit}

NextTies ==
    \/ \E gap \in TieGaps, reading \in TieReadings : Feed(gap, reading)
    \/ Detect

SpecTies == InitDetect /\ [][NextTies]_vars

\* C27: the events detect_ground_contact_events returns for one device with
\* non-decreasing timestamps are in chronological order and do not overlap:
\* each starts before it ends, and ends no later than the next one starts
C27_EventsInOrderDisjoint ==
    op = "detect_ground_contact_events" =>
        /\ \A i \in 1..(Len(arg.rows) - 1) : arg.rows[i].timestamp <= arg.rows[i + 1].timestamp
        /\ \A k \in 1..Len(ret) : ret[k].start_time < ret[k].end_time
        /\ \A k \in 1..(Len(ret) - 1) : ret[k].end_time <= ret[k + 1].start_time

\* C27 witness: two events, the second starting at the very time the first
\* ends (two samples share the timestamp)
C27_Witness ==
    /\ op = "detect_ground_contact_events"
    /\ Len(ret) = 2
    /\ ret[1].end_time = ret[2].start_time

\* the latest end and the earliest start over the events of both feet
LatestEnd(events) ==
    CHOOSE t \in {events[i].end_time : i \in 1..Len(events)} :
        \A i \in 1..Len(events) : events[i].end_time <= t

EarliestStart(events) ==
    CHOOSE t \in {events[i].start_time : i \in 1..Len(events)} :
        \A i \in 1..Len(events) : t <= events[i].start_time

\* C28: in the merged list no event ends later than the last event, so the
\* elapsed time of the cadence, last.end - first.start, is the latest end
\* minus the earliest start over all events of both feet
C28_Original ==
    (op = "calculate_gait_metrics" /\ ret # <<>>) =>
        LET all_events == MergeEvents(arg.left, arg.right)
            n == Len(all_events)
        IN  /\ \A i \in 1..n : all_events[i].end_time <= all_events[n].end_time
            /\ all_events[n].end_time - all_events[1].start_time
                   = LatestEnd(all_events) - EarliestStart(all_events)
            /\ ret.cadence = Rat(n * 60 * 1000, LatestEnd(all_events) - EarliestStart(all_events))

\* what holds instead: the first merged event has the earliest start, the
\* last merged event has the latest start, and its end can lie before the end
\* of an earlier event of the other foot; the elapsed time of the cadence is
\* at most the latest end minus the earliest start
C28_ElapsedUpToLastStarted ==
    (op = "calculate_gait_metrics" /\ ret # <<>>) =>
        LET all_events == MergeEvents(arg.left, arg.right)
            n == Len(all_events)
            total_time == all_events[n].end_time - all_events[1].start_time
        IN  /\ all_events[1].start_time = EarliestStart(all_events)
            /\ \A i \in 1..n : all_events[i].start_time <= all_events[n].start_time
            /\ total_time <= LatestEnd(all_events) - EarliestStart(all_events)
            /\ ret.cadence = Rat(n * 60 * 1000, total_time)
            /\ \A i \in 1..n :
                   all_events[i].end_time > all_events[n].end_time
                       => all_events[i].foot # all_events[n].foot

\* a left event of 500 ms from time 0 and a right event of 100 ms inside it:
\* the elapsed time ends with the right event
C28_LongStepOutlastsTheLast ==
    /\ op = "calculate_gait_metrics"
    /\ ret # <<>>
    /\ Len(arg.left) = 1
    /\ Len(arg.right) = 1
    /\ arg.left[1].start_time = 0
    /\ arg.left[1].end_time = 500
    /\ arg.right[1].start_time = 50
    /\ arg.right[1].end_time = 150
    /\ ret.cadence = Rat(2 * 60 * 1000, 150)

\* C29: whenever calculate_gait_metrics returns a non-empty result,
\* step_count = left_step_count + right_step_count, step_count >= 2, at most
\* step_count - 1 flight intervals are retained, and (min_contact_duration
\* being positive) cadence is strictly positive
C29_StepCountsAndCadence ==
    (op = "calculate_gait_metrics" /\ ret # <<>>) =>
        LET all_events == MergeEvents(arg.left, arg.right)
        IN  /\ ret.left_step_count = Len(arg.left)
            /\ ret.right_step_count = Len(arg.right)
            /\ ret.step_count = ret.left_step_count + ret.right_step_count
            /\ ret.step_count >= 2
            /\ Len(RetainedGaps(all_events)) <= ret.step_count - 1
            /\ Len(FlightTimes(all_events)) = Len(RetainedGaps(all_events))
            /\ config.gait_detection.min_contact_duration > 0 => RatLt(Zero, ret.cadence)

\* C29 witness: under the default limits, two events of one foot and one of
\* the other, one flight interval retained of the two gaps
C29_Witness ==
    /\ op = "calculate_gait_metrics"
    /\ ret # <<>>
    /\ config = DefaultConfig
    /\ ret.left_step_count = 2
    /\ ret.right_step_count = 1
    /\ ret.step_count = 3
    /\ Len(FlightTimes(MergeEvents(arg.left, arg.right))) = 1
    /\ RatLt(Zero, ret.cadence)

\* C30: analysis_results changes only when calculate_gait_metrics returns a
\* non-empty result, which it then holds; generate_report changes no field of
\* the analyser and raises nothing; while no non-empty result was returned it
\* returns the fixed message, and afterwards the report of the stored metrics
\* followed by their recommendation lines
C30_ReportOfStoredResults ==
    [][/\ analysis_results' # analysis_results =>
            /\ op' = "calculate_gait_metrics"
            /\ ret' = analysis_results'
            /\ ret' # <<>>
            /\ "raised" \notin DOMAIN ret'
       /\ op' = "generate_report" =>
            /\ UNCHANGED <<config, data, left_foot_data, right_foot_data, analysis_results>>
            /\ "raised" \notin DOMAIN ret'
            /\ analysis_results = <<>> => ret' = RunAnalysisFirst
            /\ analysis_results # <<>> =>
                   /\ ret'.text = "report"
                   /\ ret'.cadence = Scaled(analysis_results.cadence, 10)
                   /\ ret'.avg_contact_time = Scaled(analysis_results.avg_contact_time, 1)
                   /\ ret'.dominant_strike_pattern = analysis_results.dominant_strike_pattern
                   /\ ret'.recommendations = generate_recommendations(analysis_results)
                   /\ ret' = ReportOf(analysis_results)]_vars

\* C30 witness: a report of stored metrics of two steps, returned with the
\* analyser's fields as they were
C30_Witness ==
    /\ op = "generate_report"
    /\ analysis_results # <<>>
    /\ analysis_results.step_count = 2
    /\ ret = ReportOf(analysis_results)
    /\ ret.recommendations # <<>>
    /\ ~NoData(data)

\* the fixed message after an analysis of a table with one step, which
\* returned the empty result
C30_MessageAfterEmptyResult ==
    /\ op = "generate_report"
    /\ data = LoadedFrame(TableOneStep)
    /\ left_foot_data = data
    /\ analysis_results = <<>>
    /\ ret = RunAnalysisFirst

====
